---- MODULE Spec2Model ----
(***************************************************************************)
(* Adaptive cruise control: the ACC state-machine controller               *)
(* (test/fleet_test/acc_controller.py), its closed-loop test scenarios     *)
(* (test/fleet_test/test_acc_basic.py), the two-phase platoon simulation   *)
(* (test/large_scale) and the sequential fleet simulation                  *)
(* (test/fleet_test/fleet_test.py).                                        *)
(*                                                                         *)
(* Numbers.  A Python float is modelled as an integer count of 1/Scale,    *)
(* kept to MantBits significant bits: every arithmetic result is rounded   *)
(* to the nearest representable value, as a floating-point unit does.      *)
(* Parameters keep the names of the source; their values are the source's  *)
(* values times Scale (alpha_in_wave = 0.2 is 200).                        *)
(***************************************************************************)
EXTENDS Integers, Sequences, FiniteSets, TLC

\* ------------------------------------------------------------------ floats
Scale == 1000
MantBits == 18

\* The arithmetic is defined as functions and applied through operators of
\* the same meaning: a function is applied to the value of its argument, so an
\* argument that is itself a long computation is computed once.
abs_of == [x \in Int |-> IF x < 0 THEN -x ELSE x]
min_of == [a \in Int, b \in Int |-> IF a < b THEN a ELSE b]
max_of == [a \in Int, b \in Int |-> IF a > b THEN a ELSE b]
Abs(x) == abs_of[x]
Sign(x) == IF x < 0 THEN -1 ELSE 1
Min(a, b) == min_of[a, b]
Max(a, b) == max_of[a, b]

RECURSIVE Pow2(_)
Pow2(n) == IF n = 0 THEN 1 ELSE 2 * Pow2(n - 1)

\* The spacing of representable values around magnitude a (one unit in the
\* last place): 1 below 2^MantBits, doubling with every further binade.
RECURSIVE Ulp(_, _)
Ulp(a, g) == IF a < Pow2(MantBits) * g THEN g ELSE Ulp(a, 2 * g)

\* Round to nearest representable value, ties to even.
round_of ==
    [x \in Int |->
        LET a == IF x < 0 THEN -x ELSE x
            g == Ulp(a, 1)
            q == a \div g
            r == a % g
            m == IF 2 * r > g \/ (2 * r = g /\ q % 2 = 1) THEN q + 1 ELSE q
        IN  Sign(x) * m * g]
Round(x) == round_of[x]

\* n / d for d > 0, to the nearest integer (half away from zero).
RDiv(n, d) == Sign(n) * ((Abs(n) + d \div 2) \div d)

\* float('inf'): larger than every finite value of the model.  Arithmetic on
\* it follows IEEE 754 (inf + x = inf, inf * x = +-inf for x # 0).
Inf == 2000000000
IsInf(x) == x = Inf \/ x = -Inf

add_of == [a \in Int, b \in Int |->
              IF IsInf(a) THEN a ELSE IF IsInf(b) THEN b ELSE Round(a + b)]
sub_of == [a \in Int, b \in Int |->
              IF IsInf(a) THEN a ELSE IF IsInf(b) THEN -b ELSE Round(a - b)]
\* a * b / Scale, the product taken in two parts so that it stays in range
mul_of == [a \in Int, b \in Int |->
              IF IsInf(a) \/ IsInf(b) THEN Sign(a) * Sign(b) * Inf
              ELSE Round(a * (b \div Scale) + RDiv(a * (b % Scale), Scale))]
\* a / b for finite b # 0 (x / inf = 0)
div_of == [a \in Int, b \in Int |->
              IF IsInf(b) THEN 0
              ELSE IF IsInf(a) THEN Sign(a) * Sign(b) * Inf
              ELSE Round(Sign(b) * RDiv(a * Scale, Abs(b)))]
FAdd(a, b) == add_of[a, b]
FSub(a, b) == sub_of[a, b]
FMul(a, b) == mul_of[a, b]
FDiv(a, b) == div_of[a, b]
\* a float divided by a plain count (buffer_sum / ma_window)
FDivN(a, n) == FDiv(a, n * Scale)

\* int(x): truncation towards zero
int(x) == Sign(x) * (Abs(x) \div Scale)

\* sum(values): Python adds from the left, starting at 0.
RECURSIVE FSum(_)
FSum(values) ==
    IF values = <<>> THEN 0
    ELSE FAdd(FSum(SubSeq(values, 1, Len(values) - 1)), values[Len(values)])

\* values[-n:]
Tail_n(values, n) == SubSeq(values, Max(1, Len(values) - n + 1), Len(values))

\* ------------------------------------------------------------------ ACCState
NO_WAVE == "NO_WAVE"
INTO_WAVE == "INTO_WAVE"
IN_WAVE == "IN_WAVE"
OUT_OF_WAVE == "OUT_OF_WAVE"
ACCState == {NO_WAVE, INTO_WAVE, IN_WAVE, OUT_OF_WAVE}

\* ACCState is an IntEnum: the value of a state where it is stored as a number.
state_value(state) ==
    CASE state = NO_WAVE -> 0
      [] state = INTO_WAVE -> 1
      [] state = IN_WAVE -> 2
      [] state = OUT_OF_WAVE -> 3

\* ------------------------------------------------------------------ ACCParameters
no_wave_velo == 13500
wave_velo == 10000
max_velo == 25000
alpha_no_wave == 150
tau_no_wave == 2000
beta_no_wave == 424
alpha_into_wave == 700
tau_into_wave == 2400
beta_into_wave == 230
alpha_in_wave == 200
tau_in_wave == 2500
beta_in_wave == 350
alpha_out_wave == 1100
tau_out_wave == 2400
beta_out_wave == 240
desired_distance == 10000
max_accel == 1500
max_decel == -3000
speed_limit == 35000
far_distance == 200000
close_distance == 75000
filter_coeff == 650
ma_window == 10
sample_rate == 20000
accel_threshold_neg_high == -500
accel_threshold_neg_low == -250
accel_threshold_pos_low == 250
accel_threshold_pos_high == 500

\* The dataclass with its defaults.
ACCParameters ==
    [no_wave_velo |-> no_wave_velo, wave_velo |-> wave_velo, max_velo |-> max_velo,
     alpha_no_wave |-> alpha_no_wave, tau_no_wave |-> tau_no_wave,
     beta_no_wave |-> beta_no_wave,
     alpha_into_wave |-> alpha_into_wave, tau_into_wave |-> tau_into_wave,
     beta_into_wave |-> beta_into_wave,
     alpha_in_wave |-> alpha_in_wave, tau_in_wave |-> tau_in_wave,
     beta_in_wave |-> beta_in_wave,
     alpha_out_wave |-> alpha_out_wave, tau_out_wave |-> tau_out_wave,
     beta_out_wave |-> beta_out_wave,
     desired_distance |-> desired_distance,
     max_accel |-> max_accel, max_decel |-> max_decel,
     speed_limit |-> speed_limit, far_distance |-> far_distance,
     close_distance |-> close_distance,
     filter_coeff |-> filter_coeff, ma_window |-> ma_window,
     sample_rate |-> sample_rate,
     accel_threshold_neg_high |-> accel_threshold_neg_high,
     accel_threshold_neg_low |-> accel_threshold_neg_low,
     accel_threshold_pos_low |-> accel_threshold_pos_low,
     accel_threshold_pos_high |-> accel_threshold_pos_high]

\* The 'Conservative' tuning of example_custom_parameters.py.
ConservativeParameters ==
    [ACCParameters EXCEPT !.max_velo = 20000,
                          !.max_accel = 1000, !.max_decel = -2000,
                          !.tau_no_wave = 2500, !.tau_into_wave = 3000,
                          !.tau_in_wave = 3000, !.tau_out_wave = 3000,
                          !.alpha_in_wave = 150, !.alpha_into_wave = 500,
                          !.filter_coeff = 400]

\* ------------------------------------------------------------------ ACCController
zeros(n) == [k \in 1..n |-> 0]

\* ACCController.__init__
ACCController(params) ==
    [params |-> params,
     state |-> NO_WAVE,
     initialized |-> FALSE,
     lead_vel_buffer |-> zeros(params.ma_window),
     lead_accel_buffer |-> zeros(params.ma_window),
     buffer_idx |-> 0,
     buffer_sum_vel |-> 0,
     buffer_sum_accel |-> 0,
     prev_lead_vel_combined |-> 0,
     prev_cmd_accel_filtered |-> 0,
     lead_vel_smooth |-> 0,
     lead_accel_smooth |-> 0]

\* a reset that clears the buffers and the mode but keeps the running sums
\* and the delayed values
reset_keeping_sums(c) ==
    [c EXCEPT !.state = NO_WAVE,
              !.initialized = FALSE,
              !.lead_vel_buffer = zeros(Len(c.lead_vel_buffer)),
              !.lead_accel_buffer = zeros(Len(c.lead_accel_buffer)),
              !.buffer_idx = 0]

\* ACCController.reset
reset(c) ==
    [c EXCEPT !.state = NO_WAVE,
              !.initialized = FALSE,
              !.lead_vel_buffer = zeros(Len(c.lead_vel_buffer)),
              !.lead_accel_buffer = zeros(Len(c.lead_accel_buffer)),
              !.buffer_idx = 0,
              !.buffer_sum_vel = 0,
              !.buffer_sum_accel = 0,
              !.prev_lead_vel_combined = 0,
              !.prev_cmd_accel_filtered = 0,
              !.lead_vel_smooth = 0,
              !.lead_accel_smooth = 0]

\* ACCController._moving_average_update: the slot at buffer_idx (0-based in
\* the source, 1-based here) is overwritten; returns the average, the new
\* running sum and the written buffer.
_moving_average_update(c, new_val, buffer, buffer_sum) ==
    LET old_val == buffer[c.buffer_idx + 1]
        new_sum == FAdd(FSub(buffer_sum, old_val), new_val)
    IN  [avg |-> FDivN(new_sum, c.params.ma_window),
         sum |-> new_sum,
         buffer |-> [buffer EXCEPT ![c.buffer_idx + 1] = new_val]]

\* ACCController._clamp
_clamp(value, min_val, max_val) == Max(min_val, Min(max_val, value))

\* The body of ACCController._update_filters after lead_vel_combined is
\* computed, for numbers counted in 1/unit: the saturation range of the
\* lead acceleration is [-3.5, 2.0].
filters_update(c, lead_vel_combined, unit) ==
    LET lead_accel_raw ==
            FMul(FSub(lead_vel_combined, c.prev_lead_vel_combined), c.params.sample_rate)
        lead_accel_sat == _clamp(lead_accel_raw, -((7 * unit) \div 2), 2 * unit)
        v == _moving_average_update(c, lead_vel_combined, c.lead_vel_buffer, c.buffer_sum_vel)
        a == _moving_average_update(c, lead_accel_sat, c.lead_accel_buffer, c.buffer_sum_accel)
    IN  [c EXCEPT !.lead_vel_smooth = v.avg,
                  !.buffer_sum_vel = v.sum,
                  !.lead_vel_buffer = v.buffer,
                  !.lead_accel_smooth = a.avg,
                  !.buffer_sum_accel = a.sum,
                  !.lead_accel_buffer = a.buffer,
                  !.buffer_idx = (c.buffer_idx + 1) % c.params.ma_window,
                  !.prev_lead_vel_combined = lead_vel_combined]

\* ACCController._update_filters
_update_filters(c, lead_dist, rel_vel, ego_vel) ==
    filters_update(c, FAdd(ego_vel, rel_vel), Scale)

\* a table with a row from NO_WAVE straight to IN_WAVE
next_state_skipping(c, lead_dist) ==
    IF c.state = NO_WAVE /\ c.lead_vel_smooth <= c.params.wave_velo
           /\ lead_dist < c.params.close_distance
    THEN IN_WAVE
    ELSE IF c.state = OUT_OF_WAVE /\ c.lead_accel_smooth <= c.params.accel_threshold_neg_low
           /\ c.lead_vel_smooth <= c.params.wave_velo
    THEN IN_WAVE
    ELSE IF c.state = NO_WAVE THEN NO_WAVE
    ELSE IF c.state = INTO_WAVE /\ c.lead_vel_smooth <= c.params.wave_velo THEN IN_WAVE
    ELSE IF c.state = IN_WAVE /\ lead_dist > c.params.far_distance THEN NO_WAVE
    ELSE IF c.state = OUT_OF_WAVE /\ lead_dist > c.params.far_distance THEN NO_WAVE
    ELSE c.state

\* next_state with the INTO_WAVE rows out of order: the acceleration row is
\* tried before the velocity row.
next_state_reordered(c, lead_dist) ==
    LET p == c.params
        vel == c.lead_vel_smooth
        acc == c.lead_accel_smooth
    IN  CASE c.state = NO_WAVE ->
                IF (acc < p.accel_threshold_neg_high /\ vel < p.no_wave_velo
                        /\ lead_dist < 200000)
                   \/ (vel < p.no_wave_velo /\ lead_dist < p.close_distance)
                THEN INTO_WAVE ELSE NO_WAVE
          [] c.state = INTO_WAVE ->
                IF acc >= p.accel_threshold_pos_low THEN OUT_OF_WAVE
                ELSE IF vel <= p.wave_velo THEN IN_WAVE
                ELSE IF lead_dist > p.far_distance THEN NO_WAVE
                ELSE INTO_WAVE
          [] c.state = IN_WAVE ->
                IF acc > p.accel_threshold_pos_high /\ vel > p.wave_velo THEN OUT_OF_WAVE
                ELSE IF lead_dist > p.far_distance THEN NO_WAVE
                ELSE IN_WAVE
          [] c.state = OUT_OF_WAVE ->
                IF vel > p.no_wave_velo \/ lead_dist > p.far_distance THEN NO_WAVE
                ELSE IF acc <= p.accel_threshold_neg_low THEN INTO_WAVE
                ELSE OUT_OF_WAVE

\* ACCController._update_state, the transitions of an initialized controller
next_state(c, lead_dist) ==
    LET p == c.params
        vel == c.lead_vel_smooth
        acc == c.lead_accel_smooth
    IN  CASE c.state = NO_WAVE ->
                LET condition1 == /\ acc < p.accel_threshold_neg_high
                                  /\ vel < p.no_wave_velo
                                  /\ lead_dist < 200000
                    condition2 == /\ vel < p.no_wave_velo
                                  /\ lead_dist < p.close_distance
                IN  IF condition1 \/ condition2 THEN INTO_WAVE ELSE NO_WAVE
          [] c.state = INTO_WAVE ->
                IF vel <= p.wave_velo THEN IN_WAVE
                ELSE IF acc >= p.accel_threshold_pos_low THEN OUT_OF_WAVE
                ELSE IF lead_dist > p.far_distance THEN NO_WAVE
                ELSE INTO_WAVE
          [] c.state = IN_WAVE ->
                IF acc > p.accel_threshold_pos_high /\ vel > p.wave_velo THEN OUT_OF_WAVE
                ELSE IF lead_dist > p.far_distance THEN NO_WAVE
                ELSE IN_WAVE
          [] c.state = OUT_OF_WAVE ->
                IF vel > p.no_wave_velo \/ lead_dist > p.far_distance THEN NO_WAVE
                ELSE IF acc <= p.accel_threshold_neg_low THEN INTO_WAVE
                ELSE OUT_OF_WAVE

\* The initial choice of _update_state (first call after construction or reset)
initial_state(c, lead_dist) ==
    IF c.lead_vel_smooth > c.params.no_wave_velo \/ lead_dist > 200000
    THEN NO_WAVE ELSE IN_WAVE

\* _update_state without the early return of the first call: the table is
\* applied to the mode just chosen.
_update_state_fallthrough(c, lead_dist) ==
    IF ~c.initialized
    THEN [c EXCEPT !.state = next_state([c EXCEPT !.state = initial_state(c, lead_dist)],
                                        lead_dist),
                   !.initialized = TRUE]
    ELSE [c EXCEPT !.state = next_state(c, lead_dist)]

\* ACCController._update_state
_update_state(c, lead_dist) ==
    IF ~c.initialized
    THEN [c EXCEPT !.state = initial_state(c, lead_dist),
                   !.initialized = TRUE]
    ELSE [c EXCEPT !.state = next_state(c, lead_dist)]

\* gap_law with the feedback on the relative velocity and on the ego velocity
\* exchanged.
gap_law_exchanged(p, alpha, tau, beta, lead_dist, rel_vel, ego_vel) ==
    FAdd(FMul(FSub(FSub(lead_dist, p.desired_distance), FMul(tau, ego_vel)), alpha),
         FMul(beta, rel_vel))

\* The feedback law shared by the four branches of _calculate_control:
\* (lead_dist - desired_distance - tau * rel_vel) * alpha + beta * ego_vel
gap_law(p, alpha, tau, beta, lead_dist, rel_vel, ego_vel) ==
    FAdd(FMul(FSub(FSub(lead_dist, p.desired_distance), FMul(tau, rel_vel)), alpha),
         FMul(beta, ego_vel))

\* ACCController._calculate_control
_calculate_control(c, lead_dist, rel_vel, ego_vel) ==
    LET p == c.params
    IN  CASE c.state = NO_WAVE ->
                LET desired_vel == Min(p.max_velo, 35000)
                    vel_error == FSub(desired_vel, ego_vel)
                    vel_error_sat == _clamp(vel_error, 0, 3000)
                    vel_approach == FMul(333, vel_error_sat)
                    vel_limiter == Min(vel_approach, 1000)
                    distance_accel ==
                        gap_law(p, p.alpha_no_wave, p.tau_no_wave, p.beta_no_wave,
                                lead_dist, rel_vel, ego_vel)
                    distance_accel_sat == _clamp(distance_accel, p.max_decel, p.max_accel)
                IN  FMul(vel_limiter, distance_accel_sat)
          [] c.state = INTO_WAVE ->
                gap_law(p, p.alpha_into_wave, p.tau_into_wave, p.beta_into_wave,
                        lead_dist, rel_vel, ego_vel)
          [] c.state = IN_WAVE ->
                _clamp(gap_law(p, p.alpha_in_wave, p.tau_in_wave, p.beta_in_wave,
                              lead_dist, rel_vel, ego_vel),
                      p.max_decel, p.max_accel)
          [] c.state = OUT_OF_WAVE ->
                gap_law(p, p.alpha_out_wave, p.tau_out_wave, p.beta_out_wave,
                        lead_dist, rel_vel, ego_vel)
          [] OTHER -> 0

\* _post_process without its two saturations.
_post_process_unsaturated(c, cmd_accel, ego_vel) ==
    LET p == c.params
        limited == IF ego_vel >= p.speed_limit THEN Min(cmd_accel, 0) ELSE cmd_accel
    IN  [c EXCEPT !.prev_cmd_accel_filtered =
                      FAdd(c.prev_cmd_accel_filtered,
                           FMul(p.filter_coeff, FSub(limited, c.prev_cmd_accel_filtered)))]

\* ACCController._post_process: speed limiter, saturation, low-pass filter,
\* saturation; returns the controller with the stored filtered output.
_post_process(c, cmd_accel, ego_vel) ==
    LET p == c.params
        limited == IF ego_vel >= p.speed_limit THEN Min(cmd_accel, 0) ELSE cmd_accel
        saturated == _clamp(limited, p.max_decel, p.max_accel)
        cmd_accel_filtered ==
            FAdd(c.prev_cmd_accel_filtered,
                 FMul(p.filter_coeff, FSub(saturated, c.prev_cmd_accel_filtered)))
    IN  [c EXCEPT !.prev_cmd_accel_filtered =
                      _clamp(cmd_accel_filtered, p.max_decel, p.max_accel)]

\* ACCController.step: the controller after the call; the call returns
\* (prev_cmd_accel_filtered, state) of that controller.
step(c, lead_dist, rel_vel, ego_vel) ==
    LET c1 == _update_filters(c, lead_dist, rel_vel, ego_vel)
        c2 == _update_state(c1, lead_dist)
        cmd_accel == _calculate_control(c2, lead_dist, rel_vel, ego_vel)
    IN  _post_process(c2, cmd_accel, ego_vel)

\* ------------------------------------------------------------------ OurController
\* (test/large_scale/controller.py)
INITIAL == "INITIAL"
Mode == {INITIAL, NO_WAVE, INTO_WAVE, IN_WAVE, OUT_OF_WAVE}

\* Defaults of Controller.command_acceleration's keyword arguments.
default_max_velocity == 35000
default_no_wave_velocity == 13500
default_wave_velocity == 10000
default_time_step == 100

\* OurController.__init__
OurController ==
    [kind |-> "OurController",
     cmd_accel_history |-> <<0>>,
     lead_velocity_history |-> <<>>,
     lead_velocity_derivative_history |-> <<>>,
     modes_history |-> <<>>,
     mode |-> INITIAL]

\* a classification that starts over once the lead is far away
classify_restarting(mode, lead_velocity, vel_ma, acc_ma, space_gap, no_wave_velocity, wave_velocity) ==
    IF mode = INITIAL
    THEN IF lead_velocity > no_wave_velocity \/ space_gap > 200000 THEN NO_WAVE ELSE IN_WAVE
    ELSE IF space_gap > 200000 THEN INITIAL
    ELSE mode

\* The mode chosen by OurController.classification from the mode it finds.
classify(mode, lead_velocity, vel_ma, acc_ma, space_gap, no_wave_velocity, wave_velocity) ==
    CASE mode = INITIAL ->
            IF lead_velocity > no_wave_velocity \/ space_gap > 200000 THEN NO_WAVE
            ELSE IF lead_velocity <= no_wave_velocity /\ space_gap <= 200000 THEN IN_WAVE
            ELSE mode
      [] mode = NO_WAVE ->
            IF (acc_ma < -500 /\ lead_velocity < no_wave_velocity /\ space_gap < 200000)
               \/ (lead_velocity < no_wave_velocity /\ space_gap < 75000)
            THEN INTO_WAVE ELSE mode
      [] mode = INTO_WAVE ->
            IF vel_ma <= wave_velocity THEN IN_WAVE
            ELSE IF acc_ma >= 250 THEN OUT_OF_WAVE
            ELSE IF space_gap > 200000 THEN NO_WAVE
            ELSE mode
      [] mode = IN_WAVE ->
            IF acc_ma > 500 /\ lead_velocity > wave_velocity THEN OUT_OF_WAVE
            ELSE IF space_gap > 200000 THEN NO_WAVE
            ELSE mode
      [] mode = OUT_OF_WAVE ->
            IF vel_ma > no_wave_velocity THEN NO_WAVE
            ELSE IF acc_ma <= -250 THEN INTO_WAVE
            ELSE IF space_gap > 200000 THEN NO_WAVE
            ELSE mode

\* sum(values[-10:]) / len(values[-10:])
moving_average(values) == FDivN(FSum(Tail_n(values, 10)), Len(Tail_n(values, 10)))

\* The first statements of classification: the lead velocity and its clamped
\* derivative are appended to the histories.
observe_lead(c, lead_velocity, time_step) ==
    LET n == Len(c.lead_velocity_history)
        lead_velocity_derivative ==
            IF n + 1 > 1
            THEN FDiv(FSub(lead_velocity, c.lead_velocity_history[n]), time_step)
            ELSE 0
    IN  [c EXCEPT !.lead_velocity_history = Append(@, lead_velocity),
                  !.lead_velocity_derivative_history =
                      Append(@, Max(Min(2000, lead_velocity_derivative), -3500))]

\* The rest of classification, on the controller with the histories updated.
classified(c, lead_velocity, space_gap, no_wave_velocity, wave_velocity) ==
    [c EXCEPT !.mode = classify(c.mode, lead_velocity,
                                moving_average(c.lead_velocity_history),
                                moving_average(c.lead_velocity_derivative_history),
                                space_gap, no_wave_velocity, wave_velocity)]

\* OurController.classification: the controller after the call (its mode is
\* the returned mode).
classification(c, ego_velocity, space_gap, relative_velocity, max_velocity, no_wave_velocity, wave_velocity, time_step) ==
    classified(observe_lead(c, FAdd(ego_velocity, relative_velocity), time_step),
               FAdd(ego_velocity, relative_velocity), space_gap,
               no_wave_velocity, wave_velocity)

\* alpha * (space_gap - s_min - tau * ego_velocity) + k * relative_velocity,
\* the law of the four mode functions of OurController
headway_law(alpha, s_min, tau, k, ego_velocity, space_gap, relative_velocity) ==
    FAdd(FMul(alpha, FSub(FSub(space_gap, s_min), FMul(ego_velocity, tau))),
         FMul(k, relative_velocity))

\* OurController.no_wave; (1/3) * y is the float nearest to y / 3
no_wave(ego_velocity, space_gap, relative_velocity, max_velocity) ==
    LET max_velo_capped == Min(35000, max_velocity)
        soft_velocity_a ==
            Min(1000, FDivN(Min(3000, Max(0, FSub(max_velo_capped, ego_velocity))), 3))
        soft_velocity_b ==
            Min(1500, Max(-3000, headway_law(150, 10000, 2000, 424,
                                             ego_velocity, space_gap, relative_velocity)))
    IN  Min(1500, Max(-3000, FMul(soft_velocity_a, soft_velocity_b)))

\* OurController.into_wave
into_wave(ego_velocity, space_gap, relative_velocity) ==
    headway_law(700, 10000, 2400, 230, ego_velocity, space_gap, relative_velocity)

\* OurController.in_wave
in_wave(ego_velocity, space_gap, relative_velocity) ==
    Min(1500, Max(-3000, headway_law(200, 10000, 2500, 350,
                                     ego_velocity, space_gap, relative_velocity)))

\* OurController.out_of_wave
out_of_wave(ego_velocity, space_gap, relative_velocity) ==
    headway_law(1100, 10000, 2400, 240, ego_velocity, space_gap, relative_velocity)

\* The target acceleration of the mode's function, clamped and, at the speed
\* limit, capped at 0.
cmd_accel_target(mode, ego_velocity, space_gap, relative_velocity, max_velocity) ==
    LET target ==
            CASE mode = NO_WAVE ->
                    no_wave(ego_velocity, space_gap, relative_velocity, max_velocity)
              [] mode = INTO_WAVE -> into_wave(ego_velocity, space_gap, relative_velocity)
              [] mode = IN_WAVE -> in_wave(ego_velocity, space_gap, relative_velocity)
              [] mode = OUT_OF_WAVE -> out_of_wave(ego_velocity, space_gap, relative_velocity)
              [] OTHER -> 0
    IN  IF ego_velocity >= 35000 THEN Min(Max(-3000, Min(1500, target)), 0)
        ELSE Max(-3000, Min(1500, target))

\* beta * (cmd_accel_target - accel_t_minus_one) + accel_t_minus_one
low_pass(target, accel_t_minus_one) ==
    FAdd(FMul(650, FSub(target, accel_t_minus_one)), accel_t_minus_one)

\* The end of command_acceleration: the histories take the mode and the
\* unclamped command, the clamped command is returned.
commanded(c, cmd_accel) ==
    [controller |-> [c EXCEPT !.modes_history = Append(@, c.mode),
                              !.cmd_accel_history = Append(@, cmd_accel)],
     accel |-> Max(-3000, Min(1500, cmd_accel))]

\* command_acceleration after the call of classification.
commanded_in_mode(c, ego_velocity, space_gap, relative_velocity, max_velocity) ==
    commanded(c, low_pass(cmd_accel_target(c.mode, ego_velocity, space_gap,
                                           relative_velocity, max_velocity),
                          c.cmd_accel_history[Len(c.cmd_accel_history)]))

\* OurController.command_acceleration: the controller after the call and the
\* returned acceleration.
our_command_acceleration(c, ego_velocity, space_gap, relative_velocity, max_velocity, no_wave_velocity, wave_velocity, time_step) ==
    commanded_in_mode(classification(c, ego_velocity, space_gap, relative_velocity,
                                     max_velocity, no_wave_velocity, wave_velocity,
                                     time_step),
                      ego_velocity, space_gap, relative_velocity, max_velocity)

\* ------------------------------------------------------------------ IntelligentDriverModel
\* The largest finite magnitude of the model's floats and its square root: a
\* power whose result is finite but larger raises OverflowError.
FloatMax == 1000000000
SqrtFloatMax == 1000000

RECURSIVE ISqrtBetween(_, _, _)
\* the largest r in lo..hi with r * r <= n
ISqrtBetween(n, lo, hi) ==
    IF lo >= hi THEN lo
    ELSE LET mid == (lo + hi + 1) \div 2
         IN  IF mid * mid <= n THEN ISqrtBetween(n, mid, hi)
             ELSE ISqrtBetween(n, lo, mid - 1)

\* math.sqrt, rounded to nearest
FSqrt(x) ==
    LET n == x * Scale
        r == ISqrtBetween(n, 0, 46340)
    IN  IF n - r * r > r THEN r + 1 ELSE r

\* x ** 2 and x ** 4.0 for a finite x whose power does not overflow
FSquare(x) == FMul(x, x)
FPow4(x) == FSquare(FSquare(x))
SquareOverflows(x) == ~IsInf(x) /\ Abs(x) >= SqrtFloatMax
Pow4Overflows(x) == SquareOverflows(x) \/ SquareOverflows(FSquare(x))

IntelligentDriverModel == [kind |-> "IntelligentDriverModel"]

\* an except clause whose fallback accelerates
idm_dv_dt_accelerating(a, velocity_ratio, gap_ratio) ==
    IF Pow4Overflows(velocity_ratio) \/ SquareOverflows(gap_ratio)
    THEN 5000
    ELSE FMul(a, FSub(FSub(Scale, FPow4(velocity_ratio)), FSquare(gap_ratio)))

\* dv_dt of the try statement: a * (1 - velocity_ratio ** delta -
\* gap_ratio ** 2), or the fallback of the except clause.
idm_dv_dt(a, velocity_ratio, gap_ratio) ==
    IF Pow4Overflows(velocity_ratio) \/ SquareOverflows(gap_ratio)
    THEN -5000
    ELSE FMul(a, FSub(FSub(Scale, FPow4(velocity_ratio)), FSquare(gap_ratio)))

\* IntelligentDriverModel.command_acceleration
idm_command_acceleration(ego_velocity, space_gap, relative_velocity, max_velocity) ==
    LET v0 == max_velocity
        T == 1500
        s0 == 5000
        a == 1000
        b == 2000
        ego == Max(0, ego_velocity)
        gap == Max(100, space_gap)
        rel == -relative_velocity
        ab == Max(Scale \div 1000000, FMul(a, b))
        s_star == FAdd(s0, Max(0, FAdd(FMul(ego, T),
                                        FDiv(FMul(ego, rel), FMul(2 * Scale, FSqrt(ab))))))
    IN  Max(-3000, Min(1500, idm_dv_dt(a, FDiv(ego, v0), FDiv(s_star, gap))))

\* ------------------------------------------------------------------ TrajectoryFollower
\* The position vector holds samples, at four or more time stamps from 0 on,
\* of the trajectory x0 + v * t + a * t^2 / 2: the cubic spline through them
\* (not-a-knot ends, extrapolating) is that polynomial, and its derivatives
\* are v + a * t and a.
k_p == 800
k_d == 500

pos_spline(c, t) == FAdd(FAdd(c.x0, FMul(c.v, t)), FMul(FDiv(c.a, 2 * Scale), FSquare(t)))
vel_spline(c, t) == FAdd(c.v, FMul(c.a, t))
acc_spline(c, t) == c.a

\* TrajectoryFollower.__init__
TrajectoryFollower(x0, v, a) ==
    [kind |-> "TrajectoryFollower", x0 |-> x0, v |-> v, a |-> a,
     ego_position |-> FAdd(FAdd(x0, FMul(v, 0)), FMul(FDiv(a, 2 * Scale), FSquare(0))),
     last_time |-> 0]

\* accel = a_ref + k_p * pos_error + k_d * vel_error, at the time t
follower_accel(c, t, ego_velocity) ==
    FAdd(FAdd(acc_spline(c, t), FMul(k_p, FSub(pos_spline(c, t), c.ego_position))),
         FMul(k_d, FSub(vel_spline(c, t), ego_velocity)))

\* TrajectoryFollower.command_acceleration: the controller after the call and
\* the returned acceleration.
follower_command_acceleration(c, ego_velocity, time_step) ==
    [controller |-> [c EXCEPT !.last_time = FAdd(c.last_time, time_step),
                              !.ego_position = FAdd(c.ego_position, FMul(ego_velocity, time_step))],
     accel |-> Max(-3000, Min(1500, follower_accel(c, c.last_time, ego_velocity)))]

\* controller.command_acceleration(ego_velocity, space_gap=, relative_velocity=,
\* max_velocity=) as Car.compute_acceleration calls it: the other parameters
\* take the defaults of the signature.  The result is the controller after the
\* call and the returned acceleration.
command_acceleration(c, ego_velocity, space_gap, relative_velocity, max_velocity) ==
    IF c.kind = "OurController"
    THEN our_command_acceleration(c, ego_velocity, space_gap, relative_velocity,
                                  max_velocity, default_no_wave_velocity,
                                  default_wave_velocity, default_time_step)
    ELSE IF c.kind = "TrajectoryFollower"
    THEN follower_command_acceleration(c, ego_velocity, default_time_step)
    ELSE [controller |-> c,
          accel |-> idm_command_acceleration(ego_velocity, space_gap,
                                             relative_velocity, max_velocity)]

\* ------------------------------------------------------------------ Car
\* lead_car is the index of the lead car in Simulation.cars, None for the
\* leader; cs is the list of the cars constructed so far.
None == 0

Car(controller, v0, x0, lead_car, max_velocity, cs) ==
    LET gap == IF lead_car # None THEN FSub(cs[lead_car].position, x0) ELSE Inf
        rel_vel == IF lead_car # None THEN FSub(cs[lead_car].velocity, v0) ELSE 0
    IN  [position |-> x0, velocity |-> v0, lead_car |-> lead_car,
         max_velocity |-> max_velocity, controller |-> controller,
         positions |-> <<x0>>, velocities |-> <<v0>>, cmd_accels |-> <<>>,
         space_gaps |-> <<gap>>, relative_velocities |-> <<rel_vel>>,
         current_gap |-> gap, current_rel_vel |-> rel_vel]

\* A car with its controller replaced by the controller after a call, and the
\* acceleration the call returned.
controlled(self, r) == [car |-> [self EXCEPT !.controller = r.controller], accel |-> r.accel]

\* The end of compute_acceleration: gap and rel_vel are stored and handed to
\* the controller.
accelerate(self, gap, rel_vel) ==
    controlled([self EXCEPT !.current_gap = gap, !.current_rel_vel = rel_vel],
               command_acceleration(self.controller, self.velocity, gap, rel_vel,
                                    self.max_velocity))

\* compute_acceleration taking a car without a lead for one with a lead at
\* its own position
compute_acceleration_no_gap(cs, i) ==
    accelerate(cs[i],
               IF cs[i].lead_car = None THEN 0
               ELSE FSub(cs[cs[i].lead_car].position, cs[i].position),
               IF cs[i].lead_car = None THEN 0
               ELSE FSub(cs[cs[i].lead_car].velocity, cs[i].velocity))

\* Car.compute_acceleration of car i: the car after the call and the returned
\* acceleration.
compute_acceleration(cs, i) ==
    accelerate(cs[i],
               IF cs[i].lead_car = None THEN Inf
               ELSE FSub(cs[cs[i].lead_car].position, cs[i].position),
               IF cs[i].lead_car = None THEN 0
               ELSE FSub(cs[cs[i].lead_car].velocity, cs[i].velocity))

\* apply_update without the floor of the velocity
apply_update_unfloored(self, accel, dt) ==
    LET velocity == FAdd(self.velocity, FMul(accel, dt))
    IN  [self EXCEPT !.velocity = velocity,
                     !.position = FAdd(self.position, FMul(velocity, dt))]

\* Car.apply_update
apply_update(self, accel, dt) ==
    LET velocity == Max(FAdd(self.velocity, FMul(accel, dt)), 0)
    IN  [self EXCEPT !.velocity = velocity,
                     !.position = FAdd(self.position, FMul(velocity, dt))]

\* Car.record_history
record_history(self, accel) ==
    [self EXCEPT !.positions = Append(self.positions, self.position),
                 !.velocities = Append(self.velocities, self.velocity),
                 !.cmd_accels = Append(self.cmd_accels, accel),
                 !.space_gaps = Append(self.space_gaps, self.current_gap),
                 !.relative_velocities =
                     Append(self.relative_velocities, self.current_rel_vel)]

\* ------------------------------------------------------------------ HumanDriver
\* HumanDriver.__init__ with its default arguments; delta = 4.0.
HumanDriver ==
    [v0 |-> 25000, T |-> 1500, s0 |-> 5000, a |-> 1000, b |-> 2000,
     reaction_time |-> 200, delay_buffer |-> <<>>]

\* s_star = s0 + ego_vel * T + (ego_vel * approach_rate) / (2 * sqrt(a * b))
driver_s_star(d, ego_vel, approach_rate) ==
    FAdd(FAdd(d.s0, FMul(ego_vel, d.T)),
         FDiv(FMul(ego_vel, approach_rate), FMul(2 * Scale, FSqrt(FMul(d.a, d.b)))))

\* (s_star / lead_dist) ** 2 is a numpy power: it overflows to inf.
driver_interaction(ratio) == IF SquareOverflows(ratio) THEN Inf ELSE FSquare(ratio)

\* The IDM acceleration of HumanDriver.step, clamped, for ego_vel and
\* lead_dist already raised to their floors.
driver_accel(d, lead_dist, rel_vel, ego_vel) ==
    Max(-3000, Min(1500,
        FMul(d.a, FSub(FSub(Scale, FPow4(FDiv(ego_vel, d.v0))),
                       driver_interaction(FDiv(driver_s_star(d, ego_vel, -rel_vel),
                                               lead_dist))))))

\* (ego_vel / self.v0) ** self.delta is a power of Python floats, outside any
\* try statement: step raises OverflowError when it overflows.
driver_raises(d, ego_vel) == Pow4Overflows(FDiv(Max(10, ego_vel), d.v0))

\* a delay that releases the newest entry of the buffer
driver_delay_lifo(d, buffer, dt) ==
    IF Len(buffer) > int(FDiv(d.reaction_time, dt))
    THEN [driver |-> [d EXCEPT !.delay_buffer = SubSeq(buffer, 1, Len(buffer) - 1)],
          accel |-> buffer[Len(buffer)]]
    ELSE [driver |-> [d EXCEPT !.delay_buffer = buffer], accel |-> 0]

\* The reaction delay of HumanDriver.step: the driver after the call and the
\* returned acceleration.
driver_delay(d, buffer, dt) ==
    IF Len(buffer) > int(FDiv(d.reaction_time, dt))
    THEN [driver |-> [d EXCEPT !.delay_buffer = Tail(buffer)], accel |-> Head(buffer)]
    ELSE [driver |-> [d EXCEPT !.delay_buffer = buffer], accel |-> 0]

\* HumanDriver.step
driver_step(d, lead_dist, rel_vel, ego_vel, dt) ==
    driver_delay(d, Append(d.delay_buffer,
                           driver_accel(d, Max(1000, lead_dist), rel_vel, Max(10, ego_vel))),
                 dt)

\* ------------------------------------------------------------------ Vehicle
\* Vehicle.__init__: state is the value of the ACCState, -1 for a human driver.
Vehicle(vehicle_id, is_acc, initial_position, initial_velocity, dt, acc_params) ==
    [id |-> vehicle_id, is_acc |-> is_acc, position |-> initial_position,
     velocity |-> initial_velocity, acceleration |-> 0, dt |-> dt,
     controller |-> IF is_acc THEN ACCController(acc_params) ELSE None,
     driver |-> IF is_acc THEN None ELSE HumanDriver,
     state |-> IF is_acc THEN 0 ELSE -1]

\* self.acceleration, self.state = self.controller.step(...)
with_controller(self, c) ==
    [self EXCEPT !.controller = c, !.acceleration = c.prev_cmd_accel_filtered,
                 !.state = state_value(c.state)]

\* self.acceleration = self.driver.step(...)
with_driver(self, r) == [self EXCEPT !.driver = r.driver, !.acceleration = r.accel]

\* The first part of Vehicle.update: the acceleration command.  lead_vehicle
\* is <<>> for None, else a sequence holding the lead's position and velocity.
command(self, lead_vehicle) ==
    IF lead_vehicle = <<>>
    THEN [self EXCEPT !.acceleration =
              Max(-3000, Min(1500, FMul(500, FSub(25000, self.velocity))))]
    ELSE IF self.is_acc
    THEN with_controller(self, step(self.controller,
                                    FSub(lead_vehicle[1].position, self.position),
                                    FSub(lead_vehicle[1].velocity, self.velocity),
                                    self.velocity))
    ELSE with_driver(self, driver_step(self.driver,
                                       FSub(lead_vehicle[1].position, self.position),
                                       FSub(lead_vehicle[1].velocity, self.velocity),
                                       self.velocity, self.dt))

\* max(0.0, self.velocity + self.acceleration * self.dt)
floored_velocity(self) == Max(0, FAdd(self.velocity, FMul(self.acceleration, self.dt)))

\* The last two statements of Vehicle.update.
integrate(self) ==
    [self EXCEPT !.velocity = floored_velocity(self),
                 !.position = FAdd(self.position, FMul(floored_velocity(self), self.dt))]

\* Vehicle.update
update(self, lead_vehicle) == integrate(command(self, lead_vehicle))

\* ------------------------------------------------------------------ direct calls
VARIABLES
    ctrl,      \* the ACCController under test
    ret,       \* what the last step call returned: (cmd_accel, state)
    last,      \* log of the last step call: its inputs and the mode it found
    calls,     \* number of step calls made so far
    law,       \* evaluation of the control laws: arguments and results
    test,      \* locals of a closed-loop scenario of test_acc_basic.py
    cars,      \* Simulation.cars
    accels,    \* the list accels of the Simulation loop
    sim,       \* position of the Simulation loop and its settings
    vehicles,  \* FleetSimulation.vehicles
    fleet,     \* locals and recorded arrays of FleetSimulation.run
    random,    \* state of the generator of Python's module random
    sims       \* Simulation instances being constructed

simVars == <<cars, accels, sim>>
fleetVars == <<vehicles, fleet>>
runVars == <<random, sims>>
vars == <<ctrl, ret, last, calls, law, test, simVars, fleetVars, runVars>>

\* The value of a variable that a run does not use.
Unused == <<>>

\* Bounds of the exploration.
MaxCalls == 5
WindowBound == 3

\* Inputs of step: <<lead_dist, rel_vel, ego_vel>>.
Inputs ==
    { <<250000, 0, 20000>>,      \* beyond far_distance
      <<50000, 0, 12000>>,       \* close, lead between wave_velo and no_wave_velo
      <<50000, 0, 8000>>,        \* close, lead below wave_velo
      <<150000, -8000, 20000>>,  \* closing in on a slower lead
      <<50000, 0, 36000>>,       \* ego above speed_limit
      <<-5000, 0, 20000>>,       \* negative distance
      <<50000, 0, 300000>>,      \* very fast
      <<50000, 0, 1>> }          \* very slow

NoCall == [lead_dist |-> 0, rel_vel |-> 0, ego_vel |-> 0, combined |-> 0,
           from |-> NO_WAVE, first |-> FALSE, run |-> 0]

\* The parameter sets explored, with a short moving-average window.
ParamSets ==
    { [ACCParameters EXCEPT !.ma_window = WindowBound],
      [ConservativeParameters EXCEPT !.ma_window = WindowBound] }

Init ==
    /\ \E params \in ParamSets : ctrl = ACCController(params)
    /\ ret = <<0, NO_WAVE>>
    /\ last = NoCall
    /\ calls = 0
    /\ law = Unused
    /\ test = Unused
    /\ cars = Unused /\ accels = Unused /\ sim = Unused
    /\ vehicles = Unused /\ fleet = Unused
    /\ random = Unused /\ sims = Unused

\* controller.step(lead_dist, rel_vel, ego_vel)
Step(lead_dist, rel_vel, ego_vel) ==
    /\ calls < MaxCalls
    /\ ctrl' = step(ctrl, lead_dist, rel_vel, ego_vel)
    /\ ret' = <<ctrl'.prev_cmd_accel_filtered, ctrl'.state>>
    /\ last' = [lead_dist |-> lead_dist, rel_vel |-> rel_vel, ego_vel |-> ego_vel,
                combined |-> FAdd(ego_vel, rel_vel),
                from |-> ctrl.state, first |-> ~ctrl.initialized,
                run |-> IF last.run > 0 /\ last.combined = FAdd(ego_vel, rel_vel)
                        THEN last.run + 1 ELSE 1]
    /\ calls' = calls + 1
    /\ UNCHANGED <<law, test, simVars, fleetVars, runVars>>

\* controller.reset()
Reset ==
    /\ calls > 0
    /\ ctrl.initialized
    /\ ctrl' = reset(ctrl)
    /\ last' = NoCall
    /\ UNCHANGED <<ret, calls, law, test, simVars, fleetVars, runVars>>

Next ==
    \/ \E in \in Inputs : Step(in[1], in[2], in[3])
    \/ Reset

Spec == Init /\ [][Next]_vars

\* ------------------------------------------------------------------ filters at fine resolution
\* The moving averages of _update_filters fed with lead velocities below
\* 1 m/s, counted in 1/FineScale instead of 1/Scale so that the running sum
\* of the acceleration buffer is long enough to be rounded, as the sum of a
\* double is.  Only the filters are run: the arithmetic of the filters does
\* not depend on the unit, the saturation range is given in it.
FineScale == Pow2(MantBits)
MaxSamples == 7

\* lead_vel_combined of the successive calls: 0, 0.1, 0.2 and 0.3 m/s, the
\* nearest odd multiples of 5 counts.
FineVelocities == {0, 26215, 52430, 78645}

InitFilters ==
    /\ ctrl = ACCController([ACCParameters EXCEPT !.ma_window = WindowBound])
    /\ ret = 0
    /\ last = <<>>
    /\ calls = 0
    /\ law = Unused
    /\ test = Unused
    /\ cars = Unused /\ accels = Unused /\ sim = Unused
    /\ vehicles = Unused /\ fleet = Unused
    /\ random = Unused /\ sims = Unused

\* self._update_filters(lead_dist, rel_vel, ego_vel) with
\* ego_vel + rel_vel = lead_vel_combined; ret is the smoothed acceleration,
\* last the velocities fed so far.
UpdateFilters(lead_vel_combined) ==
    /\ calls < MaxSamples
    /\ ctrl' = filters_update(ctrl, lead_vel_combined, FineScale)
    /\ ret' = ctrl'.lead_accel_smooth
    /\ last' = Append(last, lead_vel_combined)
    /\ calls' = calls + 1
    /\ UNCHANGED <<law, test, simVars, fleetVars, runVars>>

NextFilters == \E lead_vel_combined \in FineVelocities : UpdateFilters(lead_vel_combined)

SpecFilters == InitFilters /\ [][NextFilters]_vars

\* ------------------------------------------------------------------ output filter at fine resolution
\* _post_process fed with raw commands beyond both saturation limits, the
\* accelerations counted in 1/FineScale: the default limits and speed limit
\* in that unit, the default filter_coeff.  ret is the returned
\* acceleration, last the one returned by the call before (0 before the
\* first call).
MaxFiltered == 12

FineParameters ==
    [ACCParameters EXCEPT !.max_decel = -3 * FineScale,
                          !.max_accel = (3 * FineScale) \div 2,
                          !.speed_limit = 35 * FineScale]

\* cmd_accel: far below max_decel, far above max_accel
FineCommands == {-10 * FineScale, 10 * FineScale}

InitPostProcess ==
    /\ ctrl = ACCController([FineParameters EXCEPT !.ma_window = WindowBound])
    /\ ret = 0
    /\ last = 0
    /\ calls = 0
    /\ law = Unused
    /\ test = Unused
    /\ cars = Unused /\ accels = Unused /\ sim = Unused
    /\ vehicles = Unused /\ fleet = Unused
    /\ random = Unused /\ sims = Unused

\* self._post_process(cmd_accel, ego_vel) at standstill (the speed limiter
\* leaves the command alone)
PostProcess(cmd_accel) ==
    /\ calls < MaxFiltered
    /\ ctrl' = _post_process(ctrl, cmd_accel, 0)
    /\ ret' = ctrl'.prev_cmd_accel_filtered
    /\ last' = ret
    /\ calls' = calls + 1
    /\ UNCHANGED <<law, test, simVars, fleetVars, runVars>>

NextPostProcess == \E cmd_accel \in FineCommands : PostProcess(cmd_accel)

SpecPostProcess == InitPostProcess /\ [][NextPostProcess]_vars

\* ------------------------------------------------------------------ control laws
\* The control law of each mode as a function of its arguments: the mode and
\* the arguments are drawn, then _calculate_control and the mode's function of
\* OurController are evaluated on them.
LawDists == {5000, 10000, 60000, 250000}
LawRelVels == {-5000, 0, 3000}
LawEgoVels == {0, 10000, 20000, 24000, 30000}

InitLaw ==
    /\ \E params \in {ACCParameters, ConservativeParameters}, mode \in ACCState :
            ctrl = [ACCController(params) EXCEPT !.state = mode, !.initialized = TRUE]
    /\ \E d \in LawDists, r \in LawRelVels, e \in LawEgoVels :
            law = [pc |-> "args", lead_dist |-> d, rel_vel |-> r, ego_vel |-> e,
                   acc_raw |-> 0, our_raw |-> 0]
    /\ ret = <<0, NO_WAVE>>
    /\ last = NoCall
    /\ calls = 0
    /\ test = Unused
    /\ cars = Unused /\ accels = Unused /\ sim = Unused
    /\ vehicles = Unused /\ fleet = Unused
    /\ random = Unused /\ sims = Unused

EvalLaw ==
    /\ law.pc = "args"
    /\ law' = [law EXCEPT
            !.pc = "done",
            !.acc_raw = _calculate_control(ctrl, law.lead_dist, law.rel_vel, law.ego_vel),
            !.our_raw =
                CASE ctrl.state = NO_WAVE ->
                        no_wave(law.ego_vel, law.lead_dist, law.rel_vel, default_max_velocity)
                  [] ctrl.state = INTO_WAVE -> into_wave(law.ego_vel, law.lead_dist, law.rel_vel)
                  [] ctrl.state = IN_WAVE -> in_wave(law.ego_vel, law.lead_dist, law.rel_vel)
                  [] ctrl.state = OUT_OF_WAVE ->
                        out_of_wave(law.ego_vel, law.lead_dist, law.rel_vel)]
    /\ UNCHANGED <<ctrl, ret, last, calls, test, simVars, fleetVars, runVars>>

NextLaw == EvalLaw

SpecLaw == InitLaw /\ [][NextLaw]_vars

\* ------------------------------------------------------------------ closed-loop scenarios
\* test_scenario_1_approaching_slower_vehicle and
\* test_scenario_2_lead_vehicle_sudden_stop: a default ACCController in closed
\* loop with a point-mass ego vehicle.
test_dt == 50
approach_duration == 30000
sudden_stop_duration == 20000
brake_start == 5000
brake_end == 10000
brake_accel == -2000
min_gap == 5000
velocity_tolerance == 1000
transitions_duration == 50000
floor_gap == 10000
min_modes == 3

\* test_scenario_3_state_transitions: the lead velocity as a function of the
\* time of the iteration.
varied_lead_vel(time_i) ==
    IF time_i < 10000 THEN 25000
    ELSE IF time_i < 20000 THEN 12000
    ELSE IF time_i < 30000 THEN 8000
    ELSE IF time_i < 40000 THEN 20000
    ELSE 25000

\* steps = int(duration / dt)
test_steps(duration) == int(FDiv(duration, test_dt))

\* The locals of a scenario before its loop: the arrays are np.zeros(steps).
test_locals(scenario, duration, ego_vel, lead_vel, lead_dist) ==
    [scenario |-> scenario, i |-> 0, steps |-> test_steps(duration),
     ego_vel |-> ego_vel, lead_vel |-> lead_vel, lead_dist |-> lead_dist,
     ego_vels |-> zeros(test_steps(duration)),
     lead_vels |-> zeros(test_steps(duration)),
     distances |-> zeros(test_steps(duration)),
     accels |-> zeros(test_steps(duration)),
     states |-> zeros(test_steps(duration))]

InitTest(locals) ==
    /\ ctrl = ACCController(ACCParameters)
    /\ ret = <<0, NO_WAVE>>
    /\ last = NoCall
    /\ calls = 0
    /\ law = Unused
    /\ test = locals
    /\ cars = Unused /\ accels = Unused /\ sim = Unused
    /\ vehicles = Unused /\ fleet = Unused
    /\ random = Unused /\ sims = Unused

InitApproach == InitTest(test_locals("approach", approach_duration, 25000, 15000, 100000))

InitSuddenStop ==
    InitTest(test_locals("sudden_stop", sudden_stop_duration, 20000, 20000, 50000))

InitTransitions ==
    InitTest(test_locals("state_transitions", transitions_duration, 25000, 25000, 150000))

\* One iteration of the loop of a scenario.
TestStep ==
    /\ test.i < test.steps
    /\ LET time_i == FMul(test.i * Scale, test_dt)
           lead_accel ==
               IF time_i >= brake_start /\ time_i < brake_end THEN brake_accel ELSE 0
           lead_vel ==
               IF test.scenario = "state_transitions"
               THEN varied_lead_vel(time_i) ELSE test.lead_vel
           rel_vel == FSub(lead_vel, test.ego_vel)
           k == test.i + 1
       IN  \E c1 \in {step(ctrl, test.lead_dist, rel_vel, test.ego_vel)} :
           LET cmd_accel == c1.prev_cmd_accel_filtered IN
           /\ ctrl' = c1
           /\ ret' = <<cmd_accel, c1.state>>
           /\ test' = [test EXCEPT
                   !.i = test.i + 1,
                   !.ego_vels[k] =
                       IF test.scenario = "state_transitions" THEN 0 ELSE test.ego_vel,
                   !.lead_vels[k] =
                       IF test.scenario = "sudden_stop" THEN test.lead_vel ELSE 0,
                   !.distances[k] =
                       IF test.scenario = "state_transitions" THEN 0 ELSE test.lead_dist,
                   !.accels[k] =
                       IF test.scenario = "state_transitions" THEN 0 ELSE cmd_accel,
                   !.states[k] = state_value(c1.state) * Scale,
                   !.ego_vel = Max(0, FAdd(test.ego_vel, FMul(cmd_accel, test_dt))),
                   !.lead_vel =
                       IF test.scenario = "sudden_stop"
                       THEN Max(0, FAdd(test.lead_vel, FMul(lead_accel, test_dt)))
                       ELSE lead_vel,
                   !.lead_dist =
                       IF test.scenario = "state_transitions"
                       THEN Max(floor_gap, FAdd(test.lead_dist, FMul(rel_vel, test_dt)))
                       ELSE FAdd(test.lead_dist, FMul(rel_vel, test_dt))]
    /\ calls' = calls + 1
    /\ UNCHANGED <<last, law, simVars, fleetVars, runVars>>

NextTest == TestStep

SpecApproach == InitApproach /\ [][NextTest]_vars

SpecSuddenStop == InitSuddenStop /\ [][NextTest]_vars

SpecTransitions == InitTransitions /\ [][NextTest]_vars

\* ------------------------------------------------------------------ Simulation
\* Bounds of the exploration: the number of cars and of steps of the loop.
NCars == 3
SimSteps == 6

sim_dt == 100
SimSpeeds == {100, 12000, 20000}
SimSpacings == {5000, 30000}
Percentages == {0, 500, 1000}

\* The lists that random.shuffle can make of n_our True and the rest False:
\* which one the seed gives is not modelled.
shuffled(n_followers, n_our) ==
    {choices \in [1..n_followers -> BOOLEAN] :
        Cardinality({j \in 1..n_followers : choices[j]}) = n_our}

RECURSIVE follower_cars(_, _, _, _, _)
\* The loop creating the follower cars.
follower_cars(cs, choices, initial_spacing, initial_speed, max_velocity) ==
    IF Len(cs) > Len(choices) THEN cs
    ELSE LET i == Len(cs) - 1
             x0 == FMul(-(i + 1) * Scale, initial_spacing)
             controller == IF choices[i + 1] THEN OurController
                           ELSE IntelligentDriverModel
             car == Car(controller, initial_speed, x0, Len(cs), max_velocity, cs)
         IN  follower_cars(Append(cs, car), choices, initial_spacing, initial_speed,
                           max_velocity)

\* Simulation.__init__ up to the loop.
InitSim ==
    /\ ctrl = Unused /\ ret = Unused /\ last = Unused /\ calls = 0
    /\ law = Unused /\ test = Unused
    /\ vehicles = Unused /\ fleet = Unused
    /\ random = Unused /\ sims = Unused
    /\ \E lead_car \in {OurController, IntelligentDriverModel},
          percentage \in Percentages,
          initial_spacing \in SimSpacings,
          initial_speed \in SimSpeeds :
          LET n_followers == NCars - 1
              n_our == int(FMul(percentage, n_followers * Scale))
              total_time == FMul(SimSteps * Scale + Scale \div 2, sim_dt)
              n_steps == int(FDiv(total_time, sim_dt))
              leader == Car(lead_car, initial_speed, 0, None, default_max_velocity, <<>>)
          IN  /\ \E choices \in shuffled(n_followers, n_our) :
                     cars = follower_cars(<<leader>>, choices, initial_spacing,
                                          initial_speed, default_max_velocity)
              /\ sim = [n_cars |-> NCars, dt |-> sim_dt, percentage |-> percentage,
                        n_steps |-> n_steps, step |-> 0, phase |-> "compute", i |-> 1]
    /\ accels = <<>>

\* The loop variable after the body of an inner loop ran for car sim.i.
next_car(next_phase) ==
    IF sim.i < sim.n_cars THEN [sim EXCEPT !.i = sim.i + 1]
    ELSE [sim EXCEPT !.i = 1, !.phase = next_phase]

\* A loop that updates each car as soon as its acceleration is computed.
ComputeAcceleration_eager ==
    /\ sim.phase = "compute"
    /\ \E r \in {compute_acceleration(cars, sim.i)} :
           /\ cars' = [cars EXCEPT ![sim.i] = apply_update(r.car, r.accel, sim.dt)]
           /\ accels' = Append(IF sim.i = 1 THEN <<>> ELSE accels, r.accel)
    /\ sim' = next_car("apply")
    /\ UNCHANGED <<ctrl, ret, last, calls, law, test, fleetVars, runVars>>

\* accels.append(self.cars[i].compute_acceleration()), for the first car after
\* accels = [].
ComputeAcceleration ==
    /\ sim.phase = "compute"
    /\ \E r \in {compute_acceleration(cars, sim.i)} :
           /\ cars' = [cars EXCEPT ![sim.i] = r.car]
           /\ accels' = Append(IF sim.i = 1 THEN <<>> ELSE accels, r.accel)
    /\ sim' = next_car("apply")
    /\ UNCHANGED <<ctrl, ret, last, calls, law, test, fleetVars, runVars>>

\* self.cars[i].apply_update(accels[i], dt)
ApplyUpdate ==
    /\ sim.phase = "apply"
    /\ cars' = [cars EXCEPT ![sim.i] = apply_update(cars[sim.i], accels[sim.i], sim.dt)]
    /\ sim' = next_car("record")
    /\ UNCHANGED <<ctrl, ret, last, calls, law, test, accels, fleetVars, runVars>>

\* self.cars[i].record_history(accels[i]); after the last car the next step
\* of the loop begins, or the loop ends.
RecordHistory ==
    /\ sim.phase = "record"
    /\ cars' = [cars EXCEPT ![sim.i] = record_history(cars[sim.i], accels[sim.i])]
    /\ sim' = IF sim.i < sim.n_cars THEN [sim EXCEPT !.i = sim.i + 1]
              ELSE [sim EXCEPT !.i = 1, !.step = sim.step + 1,
                               !.phase = IF sim.step + 1 < sim.n_steps
                                         THEN "compute" ELSE "done"]
    /\ UNCHANGED <<ctrl, ret, last, calls, law, test, accels, fleetVars, runVars>>

NextSim ==
    \/ ComputeAcceleration
    \/ ApplyUpdate
    \/ RecordHistory

SpecSim == InitSim /\ [][NextSim]_vars

\* ------------------------------------------------------------------ time steps
\* Simulations with several timesteps dt, led by a TrajectoryFollower on a
\* trajectory sampled from time 0 on, the followers spaced 30 m apart at
\* 20 m/s.
StepSizes == {50, 100, 200}
LeadTrajectories == {TrajectoryFollower(0, 20000, 0), TrajectoryFollower(0, 20000, -1000)}

\* Simulation.__init__ up to the loop.
InitTimeStep ==
    /\ ctrl = Unused /\ ret = Unused /\ last = Unused /\ calls = 0
    /\ law = Unused /\ test = Unused
    /\ vehicles = Unused /\ fleet = Unused
    /\ random = Unused /\ sims = Unused
    /\ \E lead_car \in LeadTrajectories,
          percentage \in {500, 1000},
          dt \in StepSizes :
          LET n_followers == NCars - 1
              n_our == int(FMul(percentage, n_followers * Scale))
              total_time == FMul(SimSteps * Scale + Scale \div 2, dt)
              n_steps == int(FDiv(total_time, dt))
              leader == Car(lead_car, 20000, 0, None, default_max_velocity, <<>>)
          IN  /\ \E choices \in shuffled(n_followers, n_our) :
                     cars = follower_cars(<<leader>>, choices, 30000, 20000,
                                          default_max_velocity)
              /\ sim = [n_cars |-> NCars, dt |-> dt, percentage |-> percentage,
                        n_steps |-> n_steps, step |-> 0, phase |-> "compute", i |-> 1]
    /\ accels = <<>>

SpecTimeStep == InitTimeStep /\ [][NextSim]_vars

\* ------------------------------------------------------------------ FleetSimulation
\* Bounds of the exploration: the number of vehicles and of steps of run.
NVehicles == 3
FleetSteps == 6

fleet_dt == 50
PenetrationRates == {0, 500, 1000}

\* lead_vehicle_profile: None, constant_speed_profile(15.0) or
\* step_change_profile([20.0, 10.0], 0.1)
Profiles ==
    {[kind |-> "None", speeds |-> <<>>, step_duration |-> 0],
     [kind |-> "constant_speed", speeds |-> <<15000>>, step_duration |-> 0],
     [kind |-> "step_change", speeds |-> <<20000, 10000>>, step_duration |-> 100]}

\* lead_vehicle_profile(t), or the unchanged lead velocity without a profile
profile_velocity(profile, t, lead_velocity) ==
    CASE profile.kind = "None" -> lead_velocity
      [] profile.kind = "constant_speed" -> profile.speeds[1]
      [] profile.kind = "step_change" ->
            profile.speeds[(int(FDiv(t, profile.step_duration)) % Len(profile.speeds)) + 1]

initial_velocity == 20000
initial_spacing == FAdd(10000, FMul(2500, initial_velocity))

\* The sets np.random.choice(n_vehicles, size=n_acc_vehicles, replace=False)
\* can return (vehicle ids are 0-based).
acc_choices(n_vehicles, n_acc_vehicles) ==
    {ids \in SUBSET (0..(n_vehicles - 1)) : Cardinality(ids) = n_acc_vehicles}

\* FleetSimulation._initialize_vehicles: vehicle id i is vehicles[i + 1].
_initialize_vehicles(n_vehicles, acc_indices, dt, acc_params) ==
    [k \in 1..n_vehicles |->
        Vehicle(k - 1, (k - 1) \in acc_indices, FMul((k - 1) * Scale, initial_spacing),
                initial_velocity, dt, acc_params)]

\* np.zeros((steps, n_vehicles))
zeros2(steps, n) == [k \in 1..steps |-> zeros(n)]

\* No vehicle has been updated yet.
NoUpdate == [step |-> -1, vehicle |-> 0, lead_dist |-> 0, rel_vel |-> 0, ego_vel |-> 0]

\* int(n_vehicles * penetration_rate)
n_acc_vehicles(penetration_rate) == int(FMul(NVehicles * Scale, penetration_rate))

\* The fields of a FleetSimulation at the start of run's loop.
FleetSimulation(penetration_rate, profile) ==
    LET duration == FMul(FleetSteps * Scale + Scale \div 2, fleet_dt)
        steps == int(FDiv(duration, fleet_dt))
    IN  [n_vehicles |-> NVehicles, penetration_rate |-> penetration_rate,
         dt |-> fleet_dt, duration |-> duration, steps |-> steps,
         time |-> zeros(steps),
         positions |-> zeros2(steps, NVehicles),
         velocities |-> zeros2(steps, NVehicles),
         accelerations |-> zeros2(steps, NVehicles),
         space_gaps |-> zeros2(steps, NVehicles),
         states |-> zeros2(steps, NVehicles),
         profile |-> profile,
         lead_position |-> FMul(NVehicles * Scale, initial_spacing),
         lead_velocity |-> 20000,
         step |-> 0, i |-> NVehicles,
         pc |-> IF steps > 0 THEN "lead" ELSE "done"]

\* The vehicles and the arrays of a FleetSimulation at the start of run.
FleetRun ==
    \E penetration_rate \in PenetrationRates, profile \in Profiles :
          /\ \E acc_indices \in acc_choices(NVehicles, n_acc_vehicles(penetration_rate)) :
                 vehicles = _initialize_vehicles(NVehicles, acc_indices, fleet_dt,
                                                 ACCParameters)
          /\ fleet = FleetSimulation(penetration_rate, profile)

\* FleetSimulation.__init__ and the statements of run before its loop.
InitFleet ==
    /\ ctrl = Unused /\ ret = Unused /\ calls = 0
    /\ law = Unused /\ test = Unused
    /\ cars = Unused /\ accels = Unused /\ sim = Unused
    /\ random = Unused /\ sims = Unused
    /\ last = NoUpdate
    /\ FleetRun

\* The head of an iteration of run's loop: the time is stored and the lead
\* vehicle is moved.
FleetLead ==
    /\ fleet.pc = "lead"
    /\ \E t \in {FMul(fleet.step * Scale, fleet.dt)} :
       \E lead_velocity \in {profile_velocity(fleet.profile, t, fleet.lead_velocity)} :
           fleet' = [fleet EXCEPT
               !.time[fleet.step + 1] = t,
               !.lead_velocity = lead_velocity,
               !.lead_position = FAdd(@, FMul(lead_velocity, fleet.dt)),
               !.pc = "vehicles",
               !.i = fleet.n_vehicles]
    /\ UNCHANGED <<ctrl, ret, last, calls, law, test, simVars, vehicles, runVars>>

\* The vehicle ahead of vehicle i as update reads it: the external lead for
\* the last vehicle, else the next vehicle of the platoon.
lead_veh(i) ==
    IF i = fleet.n_vehicles
    THEN [position |-> fleet.lead_position, velocity |-> fleet.lead_velocity]
    ELSE [position |-> vehicles[i + 1].position, velocity |-> vehicles[i + 1].velocity]

\* The body of the inner loop of run for vehicle fleet.i: the vehicle is
\* updated and its data stored.  last logs lead_dist and rel_vel as update
\* computes them, and the velocity it hands to the controller.
FleetVehicle ==
    /\ fleet.pc = "vehicles"
    /\ \E i \in {fleet.i}, k \in {fleet.step + 1} :
       \E v \in {update(vehicles[i], <<lead_veh(i)>>)} :
           /\ vehicles' = [vehicles EXCEPT ![i] = v]
           /\ last' = [step |-> fleet.step, vehicle |-> i,
                       lead_dist |-> FSub(lead_veh(i).position, vehicles[i].position),
                       rel_vel |-> FSub(lead_veh(i).velocity, vehicles[i].velocity),
                       ego_vel |-> vehicles[i].velocity]
           /\ fleet' = [fleet EXCEPT
                   !.positions[k][i] = v.position,
                   !.velocities[k][i] = v.velocity,
                   !.accelerations[k][i] = v.acceleration,
                   !.states[k][i] = v.state * Scale,
                   !.space_gaps[k][i] = FSub(lead_veh(i).position, v.position),
                   !.i = IF i > 1 THEN i - 1 ELSE fleet.n_vehicles,
                   !.step = IF i > 1 THEN fleet.step ELSE fleet.step + 1,
                   !.pc = IF i > 1 THEN "vehicles"
                          ELSE IF fleet.step + 1 < fleet.steps THEN "lead" ELSE "done"]
    /\ UNCHANGED <<ctrl, ret, calls, law, test, simVars, runVars>>

NextFleet ==
    \/ FleetLead
    \/ FleetVehicle

SpecFleet == InitFleet /\ [][NextFleet]_vars

\* ------------------------------------------------------------------ two fleets
\* Two FleetSimulation instances built with the same constructor arguments
\* and run with the same profile, one after the other.  np.random.choice
\* draws from the global generator of numpy, which nothing seeds: each
\* construction gets any of the sets acc_choices allows.  ret keeps what the
\* first instance recorded, calls counts the finished constructions.

\* The vehicle ids [i for i in range(n_vehicles) if vehicles[i].is_acc]
acc_vehicle_ids(vs) == {k - 1 : k \in {j \in 1..Len(vs) : vs[j].is_acc}}

\* What an instance shows after run: the equipped ids and its arrays.
recorded_series(self, vs) ==
    [acc |-> acc_vehicle_ids(vs),
     positions |-> self.positions, velocities |-> self.velocities,
     accelerations |-> self.accelerations, space_gaps |-> self.space_gaps,
     states |-> self.states]

InitTwin ==
    /\ ctrl = Unused /\ calls = 1
    /\ law = Unused /\ test = Unused
    /\ cars = Unused /\ accels = Unused /\ sim = Unused
    /\ random = Unused /\ sims = Unused
    /\ last = NoUpdate
    /\ ret = Unused
    /\ FleetRun

\* sim2 = FleetSimulation(<the arguments of the first>); sim2.run(<the same profile>)
SecondFleetSimulation ==
    /\ calls = 1
    /\ fleet.pc = "done"
    /\ ret' = recorded_series(fleet, vehicles)
    /\ \E acc_indices \in acc_choices(NVehicles, n_acc_vehicles(fleet.penetration_rate)) :
           vehicles' = _initialize_vehicles(NVehicles, acc_indices, fleet_dt, ACCParameters)
    /\ fleet' = FleetSimulation(fleet.penetration_rate, fleet.profile)
    /\ calls' = 2
    /\ last' = NoUpdate
    /\ UNCHANGED <<ctrl, law, test, simVars, runVars>>

NextTwin ==
    \/ FleetLead
    \/ FleetVehicle
    \/ SecondFleetSimulation

SpecTwin == InitTwin /\ [][NextTwin]_vars

\* ------------------------------------------------------------------ integration steps
\* Direct calls of Car.apply_update and Vehicle.update on one car and one
\* vehicle: any acceleration and time step for the car, any lead for the
\* vehicle.
MaxUpdates == 3

UpdateSpeeds == {0, 100, 12000}
UpdateAccels == {-50000, 1500}
UpdateSteps == {50, 2000}
VehicleSteps == {50, 1000}
UpdateLeads ==
    {<<>>} \cup {<<[position |-> x, velocity |-> 0]>> : x \in {2000, 60000}}

NoIntegration == [op |-> "none", position |-> 0, velocity |-> 0, accel |-> 0, dt |-> 0]

InitUpdates ==
    /\ ctrl = Unused /\ ret = Unused /\ calls = 0
    /\ law = Unused /\ test = Unused
    /\ accels = Unused /\ sim = Unused /\ fleet = Unused
    /\ random = Unused /\ sims = Unused
    /\ last = NoIntegration
    /\ \E v0 \in UpdateSpeeds, is_acc \in BOOLEAN, dt \in VehicleSteps :
          /\ cars = <<Car(IntelligentDriverModel, v0, 0, None, default_max_velocity, <<>>)>>
          /\ vehicles = <<Vehicle(0, is_acc, 0, v0, dt, ACCParameters)>>

\* car.apply_update(accel, dt); last logs the state before the call.
CallApplyUpdate(accel, dt) ==
    /\ calls < MaxUpdates
    /\ cars' = <<apply_update(cars[1], accel, dt)>>
    /\ last' = [op |-> "apply_update", position |-> cars[1].position,
                velocity |-> cars[1].velocity, accel |-> accel, dt |-> dt]
    /\ calls' = calls + 1
    /\ UNCHANGED <<ctrl, ret, law, test, accels, sim, fleetVars, runVars>>

\* vehicle.update(lead_vehicle); last logs the state before the call and the
\* acceleration the call commanded.
CallUpdate(lead_vehicle) ==
    /\ calls < MaxUpdates
    /\ \E v \in {update(vehicles[1], lead_vehicle)} :
           /\ vehicles' = <<v>>
           /\ last' = [op |-> "update", position |-> vehicles[1].position,
                       velocity |-> vehicles[1].velocity, accel |-> v.acceleration,
                       dt |-> v.dt]
    /\ calls' = calls + 1
    /\ UNCHANGED <<ctrl, ret, law, test, simVars, fleet, runVars>>

NextUpdates ==
    \/ \E accel \in UpdateAccels, dt \in UpdateSteps : CallApplyUpdate(accel, dt)
    \/ \E lead_vehicle \in UpdateLeads : CallUpdate(lead_vehicle)

SpecUpdates == InitUpdates /\ [][NextUpdates]_vars

\* ------------------------------------------------------------------ reference controllers
\* Direct calls of one reference controller: a HumanDriver stepped with a
\* fixed dt, an IntelligentDriverModel or a TrajectoryFollower.  last logs the
\* arguments of the calls made; a call that raises ends the sequence.
MaxReferenceCalls == 5

DriverSteps == {50, 100, 300}
Trajectories == {TrajectoryFollower(0, 20000, 0), TrajectoryFollower(10000, 15000, -1000)}
ReferenceInputs ==
    {[lead_dist |-> 30000, rel_vel |-> 0, ego_vel |-> 20000],
     [lead_dist |-> 500, rel_vel |-> 0, ego_vel |-> 20000],
     [lead_dist |-> Inf, rel_vel |-> 0, ego_vel |-> 0],
     [lead_dist |-> -2000, rel_vel |-> -5000, ego_vel |-> 10000],
     [lead_dist |-> 0, rel_vel |-> -20000, ego_vel |-> 20000],
     [lead_dist |-> 30000, rel_vel |-> 0, ego_vel |-> 2000000]}

\* A TrajectoryFollower reads only ego_velocity.
FollowerInputs == {input \in ReferenceInputs : input.rel_vel = 0 /\ input.lead_dist # 500}

InitReference ==
    /\ test = Unused
    /\ cars = Unused /\ accels = Unused /\ sim = Unused
    /\ vehicles = Unused /\ fleet = Unused
    /\ random = Unused /\ sims = Unused
    /\ calls = 0
    /\ ret = 0
    /\ last = <<>>
    /\ \/ /\ ctrl = HumanDriver
          /\ \E dt \in DriverSteps : law = [kind |-> "HumanDriver", dt |-> dt, raised |-> FALSE]
       \/ /\ ctrl = IntelligentDriverModel
          /\ law = [kind |-> "IntelligentDriverModel", dt |-> default_time_step, raised |-> FALSE]
       \/ /\ ctrl \in Trajectories
          /\ law = [kind |-> "TrajectoryFollower", dt |-> default_time_step, raised |-> FALSE]

\* driver.step(lead_dist, rel_vel, ego_vel, dt)
DriverStep(input) ==
    /\ law.kind = "HumanDriver" /\ ~law.raised
    /\ calls < MaxReferenceCalls
    /\ IF driver_raises(ctrl, input.ego_vel)
       THEN /\ law' = [law EXCEPT !.raised = TRUE]
            /\ UNCHANGED <<ctrl, ret>>
       ELSE /\ \E r \in {driver_step(ctrl, input.lead_dist, input.rel_vel, input.ego_vel, law.dt)} :
                   ctrl' = r.driver /\ ret' = r.accel
            /\ UNCHANGED law
    /\ last' = Append(last, input)
    /\ calls' = calls + 1
    /\ UNCHANGED <<test, simVars, fleetVars, runVars>>

\* controller.command_acceleration(ego_velocity, space_gap, relative_velocity)
\* of an IntelligentDriverModel
IdmCommand(input) ==
    /\ law.kind = "IntelligentDriverModel"
    /\ calls < MaxReferenceCalls
    /\ ret' = idm_command_acceleration(input.ego_vel, input.lead_dist, input.rel_vel,
                                       default_max_velocity)
    /\ last' = Append(last, input)
    /\ calls' = calls + 1
    /\ UNCHANGED <<ctrl, law, test, simVars, fleetVars, runVars>>

\* controller.command_acceleration(ego_velocity, space_gap, relative_velocity)
\* of a TrajectoryFollower
FollowerCommand(input) ==
    /\ law.kind = "TrajectoryFollower"
    /\ calls < MaxReferenceCalls
    /\ \E r \in {follower_command_acceleration(ctrl, input.ego_vel, law.dt)} :
           ctrl' = r.controller /\ ret' = r.accel
    /\ last' = Append(last, input)
    /\ calls' = calls + 1
    /\ UNCHANGED <<law, test, simVars, fleetVars, runVars>>

NextReference ==
    \/ \E input \in ReferenceInputs : DriverStep(input)
    \/ \E input \in ReferenceInputs : IdmCommand(input)
    \/ \E input \in FollowerInputs : FollowerCommand(input)

SpecReference == InitReference /\ [][NextReference]_vars

\* ------------------------------------------------------------------ OurController calls
\* Direct calls of command_acceleration on one OurController, the other
\* parameters at the defaults of the signature.  last logs the arguments of
\* the last call and the mode it found.
MaxOurCalls == 4

OurInputs ==
    {[ego_velocity |-> 10000, space_gap |-> gap, relative_velocity |-> rel] :
        gap \in {50000, 250000}, rel \in {-5000, 2000, 10000}}

NoOurCall == [ego_velocity |-> 0, space_gap |-> 0, relative_velocity |-> 0, from |-> INITIAL]

InitOur ==
    /\ ctrl = OurController
    /\ ret = 0
    /\ last = NoOurCall
    /\ calls = 0
    /\ law = Unused /\ test = Unused
    /\ cars = Unused /\ accels = Unused /\ sim = Unused
    /\ vehicles = Unused /\ fleet = Unused
    /\ random = Unused /\ sims = Unused

\* controller.command_acceleration(ego_velocity, space_gap, relative_velocity)
OurCommand(input) ==
    /\ calls < MaxOurCalls
    /\ \E r \in {our_command_acceleration(ctrl, input.ego_velocity, input.space_gap,
                                           input.relative_velocity, default_max_velocity,
                                           default_no_wave_velocity, default_wave_velocity,
                                           default_time_step)} :
           ctrl' = r.controller /\ ret' = r.accel
    /\ last' = [ego_velocity |-> input.ego_velocity, space_gap |-> input.space_gap,
                relative_velocity |-> input.relative_velocity, from |-> ctrl.mode]
    /\ calls' = calls + 1
    /\ UNCHANGED <<law, test, simVars, fleetVars, runVars>>

NextOur == \E input \in OurInputs : OurCommand(input)

SpecOur == InitOur /\ [][NextOur]_vars

\* ------------------------------------------------------------------ module random
\* The generator of Python's module random is one object shared by the whole
\* process.  Its Mersenne Twister is abstracted by a linear congruential
\* generator over RandomStates states: seed fixes the state from its argument
\* alone, every draw is a function of the state and advances it.
RandomStates == 32
RandomMultiplier == 5
RandomIncrement == 3
SeedMultiplier == 7
DrawShift == 4

\* a call of random.seed that leaves the generator as it was
seed_ignored(state, a) == state

\* random.seed(a): the state of the generator after the call.
seed(state, a) == (a * SeedMultiplier + 1) % RandomStates

\* The state of the generator after one draw.
advance(state) == (state * RandomMultiplier + RandomIncrement) % RandomStates

\* random._randbelow(n) drawn in the given state.
_randbelow(state, n) == (advance(state) \div DrawShift) % n

\* an exchange that only copies x[j] into x[i]
overwritten(x, i, j) == [x EXCEPT ![i + 1] = x[j + 1]]

\* x[i], x[j] = x[j], x[i] with 0-based i and j
swapped(x, i, j) == [x EXCEPT ![i + 1] = x[j + 1], ![j + 1] = x[i + 1]]

RECURSIVE shuffle_from(_, _, _)
\* for i in reversed(range(1, len(x))): j = randbelow(i + 1); swap
shuffle_from(state, x, i) ==
    IF i < 1 THEN [state |-> state, x |-> x]
    ELSE shuffle_from(advance(state), swapped(x, i, _randbelow(state, i + 1)), i - 1)

\* random.shuffle(x): the list and the state of the generator after the call.
shuffle(state, x) == shuffle_from(state, x, Len(x) - 1)

\* ------------------------------------------------------------------ Simulation instances
\* Simulation.__init__ of several instances, cut at its two calls into the
\* module random; the rest of __init__ touches only the instance.
Instances == {1, 2}
Seeds == {42, 7, 8}
RunSpeeds == {12000, 20000}
RunSpacings == {30000}
InitialRandomStates == {0, 3, 18, 29}

\* The arguments of a construction.
SimArgs ==
    [lead_car : {OurController, IntelligentDriverModel}, percentage : Percentages,
     random_seed : Seeds, initial_spacing : RunSpacings, initial_speed : RunSpeeds]

\* An instance whose __init__ has created the lead car and is about to call
\* random.seed.
new_simulation(args) ==
    [args |-> args, pc |-> "seed", choices |-> <<>>, cars |-> <<>>,
     n_followers |-> NCars - 1,
     n_our |-> int(FMul(args.percentage, (NCars - 1) * Scale))]

\* choices = [True] * n_our + [False] * (n_followers - n_our)
unshuffled(n_followers, n_our) == [j \in 1..n_followers |-> j <= n_our]

RECURSIVE computed(_, _, _)
RECURSIVE computed_with(_, _, _, _)
\* The loop over compute_acceleration from car i on: the cars and accels.
computed(cs, as, i) ==
    IF i > Len(cs) THEN [cars |-> cs, accels |-> as]
    ELSE computed_with(cs, as, i, compute_acceleration(cs, i))

computed_with(cs, as, i, r) ==
    computed([cs EXCEPT ![i] = r.car], Append(as, r.accel), i + 1)

\* The loops over apply_update and record_history.
applied(cs, as, dt) == [i \in 1..Len(cs) |-> apply_update(cs[i], as[i], dt)]

recorded(cs, as) == [i \in 1..Len(cs) |-> record_history(cs[i], as[i])]

\* One step of the loop, given the result of its first inner loop.
stepped(r, dt) == recorded(applied(r.cars, r.accels, dt), r.accels)

RECURSIVE run_steps(_, _, _)
\* for step in range(n_steps)
run_steps(cs, n_steps, dt) ==
    IF n_steps = 0 THEN cs
    ELSE run_steps(stepped(computed(cs, <<>>, 1), dt), n_steps - 1, dt)

\* The cars of an instance at the end of __init__.
simulated(self) ==
    run_steps(follower_cars(<<Car(self.args.lead_car, self.args.initial_speed, 0, None,
                                  default_max_velocity, <<>>)>>,
                            self.choices, self.args.initial_spacing,
                            self.args.initial_speed, default_max_velocity),
              int(FDiv(FMul(SimSteps * Scale + Scale \div 2, sim_dt), sim_dt)), sim_dt)

\* random.seed(random_seed)
SeedRandom(k) ==
    /\ sims[k].pc = "seed"
    /\ random' = seed(random, sims[k].args.random_seed)
    /\ sims' = [sims EXCEPT ![k].pc = "shuffle"]

\* random.shuffle(choices)
ShuffleChoices(k) ==
    /\ sims[k].pc = "shuffle"
    /\ \E r \in {shuffle(random, unshuffled(sims[k].n_followers, sims[k].n_our))} :
           /\ random' = r.state
           /\ sims' = [sims EXCEPT ![k].pc = "cars", ![k].choices = r.x]

\* The controllers, the follower cars and the loop.
RunLoop(k) ==
    /\ sims[k].pc = "cars"
    /\ sims' = [sims EXCEPT ![k].pc = "done", ![k].cars = simulated(sims[k])]
    /\ UNCHANGED random

Construct(k) ==
    /\ \/ SeedRandom(k)
       \/ ShuffleChoices(k)
       \/ RunLoop(k)
    /\ UNCHANGED <<ctrl, ret, last, calls, law, test, simVars, fleetVars>>

\* ------------------------------------------------------------------ repeated runs
\* Two constructions of Simulation with the same arguments, one after the
\* other, and two ACCController instances fed the same inputs.
ReplayLen == 2
ReplayInputs == {<<250000, 0, 20000>>, <<50000, 0, 12000>>, <<150000, -8000, 20000>>}

InitRepeat ==
    /\ ctrl = <<ACCController(ACCParameters), ACCController(ACCParameters)>>
    /\ ret = <<<<>>, <<>>>>
    /\ last = <<>>
    /\ calls = 0
    /\ law = Unused /\ test = Unused
    /\ cars = Unused /\ accels = Unused /\ sim = Unused
    /\ vehicles = Unused /\ fleet = Unused
    /\ random \in InitialRandomStates
    /\ \E args \in SimArgs : sims = [k \in Instances |-> new_simulation(args)]

\* step of instance k with the given input; ret[k] collects what it returned.
StepInstance(k, input) ==
    \E c1 \in {step(ctrl[k], input[1], input[2], input[3])} :
        /\ ctrl' = [ctrl EXCEPT ![k] = c1]
        /\ ret' = [ret EXCEPT ![k] = Append(@, <<c1.prev_cmd_accel_filtered, c1.state>>)]

\* The first controller is fed one more input.
StepFirst ==
    /\ Len(last) < ReplayLen
    /\ \E input \in ReplayInputs :
           /\ StepInstance(1, input)
           /\ last' = Append(last, input)
    /\ calls' = calls + 1
    /\ UNCHANGED <<law, test, simVars, fleetVars, runVars>>

\* The second controller is fed the next input of those the first was fed.
StepSecond ==
    /\ Len(ret[2]) < Len(last)
    /\ StepInstance(2, last[Len(ret[2]) + 1])
    /\ UNCHANGED <<last, calls, law, test, simVars, fleetVars, runVars>>

\* An instance is constructed when the ones before it are complete.
NextRepeat ==
    \/ \E k \in Instances :
           /\ \A j \in Instances : j < k => sims[j].pc = "done"
           /\ Construct(k)
    \/ StepFirst
    \/ StepSecond

SpecRepeat == InitRepeat /\ [][NextRepeat]_vars

\* ------------------------------------------------------------------ concurrent constructions
\* Two constructions of Simulation, each with its own arguments, running in
\* two threads of one process: the calls into the module random interleave.
ConcurrentArgs ==
    {args \in SimArgs : args.lead_car = IntelligentDriverModel /\ args.initial_speed = 20000}

InitConcurrent ==
    /\ ctrl = Unused /\ ret = Unused /\ last = Unused /\ calls = 0
    /\ law = Unused /\ test = Unused
    /\ cars = Unused /\ accels = Unused /\ sim = Unused
    /\ vehicles = Unused /\ fleet = Unused
    /\ random \in InitialRandomStates
    /\ sims \in [Instances -> {new_simulation(args) : args \in ConcurrentArgs}]

NextConcurrent == \E k \in Instances : Construct(k)

SpecConcurrent == InitConcurrent /\ [][NextConcurrent]_vars

\* ------------------------------------------------------------------ penetration
\* Constructions of Simulation and of FleetSimulation over a grid of
\* penetration fractions; last is the log of the latest construction.
MaxConstructions == 2
PenetrationGrid == {0, 250, 500, 750, 1000}

GridArgs ==
    [lead_car : {IntelligentDriverModel}, percentage : PenetrationGrid,
     random_seed : Seeds, initial_spacing : RunSpacings, initial_speed : {20000}]

InitPenetration ==
    /\ ctrl = Unused /\ ret = Unused /\ calls = 0
    /\ law = Unused /\ test = Unused
    /\ accels = Unused /\ sim = Unused /\ fleet = Unused /\ sims = Unused
    /\ cars = <<>> /\ vehicles = <<>>
    /\ last = [op |-> "none", fraction |-> 0, candidates |-> 0]
    /\ random \in InitialRandomStates

\* Simulation(lead_car, n_cars, percentage, ..., random_seed)
NewSimulation ==
    /\ calls < MaxConstructions
    /\ \E args \in GridArgs :
           \E r \in {shuffle(seed(random, args.random_seed),
                              unshuffled(NCars - 1, new_simulation(args).n_our))} :
               /\ random' = r.state
               /\ cars' = simulated([new_simulation(args) EXCEPT !.choices = r.x])
               /\ last' = [op |-> "Simulation", fraction |-> args.percentage,
                           candidates |-> NCars - 1]
    /\ calls' = calls + 1
    /\ UNCHANGED <<ctrl, ret, law, test, accels, sim, fleetVars, sims>>

\* FleetSimulation(n_vehicles, penetration_rate)
NewFleetSimulation ==
    /\ calls < MaxConstructions
    /\ \E penetration_rate \in PenetrationGrid :
           \E acc_indices \in acc_choices(NVehicles,
                                          int(FMul(NVehicles * Scale, penetration_rate))) :
               /\ vehicles' = _initialize_vehicles(NVehicles, acc_indices, fleet_dt,
                                                    ACCParameters)
               /\ last' = [op |-> "FleetSimulation", fraction |-> penetration_rate,
                           candidates |-> NVehicles]
    /\ calls' = calls + 1
    /\ UNCHANGED <<ctrl, ret, law, test, simVars, fleet, runVars>>

NextPenetration ==
    \/ NewSimulation
    \/ NewFleetSimulation

SpecPenetration == InitPenetration /\ [][NextPenetration]_vars

\* ------------------------------------------------------------------ compute_metrics
\* A Simulation of closely spaced cars, run to the end of its loop, and the
\* crash entries of the mapping compute_metrics returns.  The cars of the
\* code are numbered from 0 and those of the model from 1: first_crash_index
\* holds the number of the model, and None when the code leaves it None.
MetricCars == 4
MetricSteps == 9
metric_dt == 1000
last_time == 10000
MetricSpeeds == {20000, 40000}
MetricSpacings == {1000, 2000}
MetricPercentages == {0, 340, 670, 1000}

NoMetrics == [raised |-> FALSE, num_crashes |-> 0, first_crash_index |-> None, string_stability_index |-> 0, max_jerk_per_car |-> <<>>, hard_brake_times |-> <<>>, final_density |-> 0, final_flow |-> 0, final_velocity |-> 0]

\* np.any(gaps <= 0)
crashed(car) == \E k \in 1..Len(car.space_gaps) : car.space_gaps[k] <= 0

RECURSIVE crashes_until_first(_, _, _, _)
\* a loop over the cars that stops counting at the first crash
crashes_until_first(cs, i, num_crashes, first_crash_index) ==
    IF i > Len(cs) \/ first_crash_index # None
    THEN [num_crashes |-> num_crashes, first_crash_index |-> first_crash_index]
    ELSE IF crashed(cs[i]) THEN crashes_until_first(cs, i + 1, num_crashes + 1, i)
    ELSE crashes_until_first(cs, i + 1, num_crashes, first_crash_index)

RECURSIVE crashes_from(_, _, _, _)
\* The statements on crashes of the loop over the cars, from car i on.
crashes_from(cs, i, num_crashes, first_crash_index) ==
    IF i > Len(cs)
    THEN [num_crashes |-> num_crashes, first_crash_index |-> first_crash_index]
    ELSE IF crashed(cs[i])
    THEN crashes_from(cs, i + 1, num_crashes + 1,
                      IF first_crash_index = None THEN i ELSE first_crash_index)
    ELSE crashes_from(cs, i + 1, num_crashes, first_crash_index)

\* compute_metrics raises when np.max meets an empty jerk array (fewer than
\* two commanded accelerations) and when compute_final_density indexes a
\* position history shorter than int(last_time / dt).
metrics_raise(cs, dt) ==
    \/ Len(cs[1].cmd_accels) < 2
    \/ Len(cs[1].positions) < int(FDiv(last_time, dt))

\* 1 / 1e-6: the divisor np.max(...) + 1e-6 is 1e-6 when the maximum is 0 and
\* is the maximum itself, at the resolution of the model, when it is not.
per_epsilon == 1000000

\* np.mean(values)
mean(values) == FDivN(FSum(values), Len(values))

\* np.max(np.abs(errors))
max_abs(errors) == CHOOSE m \in {Abs(errors[k]) : k \in 1..Len(errors)} : \A k \in 1..Len(errors) : Abs(errors[k]) <= m

\* The entry of spacing_errors for car i: zeros for the lead car, and for
\* another car its gaps minus desired_gap, the mean of the gaps of car i - 1.
spacing_errors(cs, i) ==
    IF i = 1 THEN [k \in 1..Len(cs[i].space_gaps) |-> 0]
    ELSE [k \in 1..Len(cs[i].space_gaps) |-> FSub(cs[i].space_gaps[k], mean(cs[i - 1].space_gaps))]

\* curr_max_error / prev_max_error
stability_ratio(curr_max_error, prev_max_error) ==
    IF prev_max_error = 0 THEN FMul(curr_max_error, per_epsilon * Scale)
    ELSE FDiv(curr_max_error, prev_max_error)

\* string_stability_ratios, given the list of spacing errors
string_stability_ratios(errors) ==
    [j \in 1..(Len(errors) - 1) |-> stability_ratio(max_abs(errors[j + 1]), max_abs(errors[j]))]

\* max(string_stability_ratios) if string_stability_ratios else 0
string_stability_index(errors) ==
    IF Len(errors) < 2 THEN 0
    ELSE CHOOSE m \in {string_stability_ratios(errors)[j] : j \in 1..(Len(errors) - 1)} : \A j \in 1..(Len(errors) - 1) : string_stability_ratios(errors)[j] <= m

hard_brake_threshold == -3000
segment_min == 200000
segment_max == 300000

\* np.max(np.abs(np.diff(accels) / dt)) for at least two accelerations
max_jerk(accelerations, dt) ==
    max_abs([k \in 1..(Len(accelerations) - 1) |-> FDiv(FSub(accelerations[k + 1], accelerations[k]), dt)])

\* np.sum(accels <= hard_brake_threshold) * dt
hard_brake_time(accelerations, dt) ==
    FMul(Cardinality({k \in 1..Len(accelerations) : accelerations[k] <= hard_brake_threshold}) * Scale, dt)

\* The cars inside the segment at index t of the histories.
segment_cars(cs, t) ==
    {i \in 1..Len(cs) : cs[i].positions[t] >= segment_min /\ cs[i].positions[t] <= segment_max}

\* range(-n_steps, 0) as indices of a history of the given length
last_steps(length, dt) == (length - int(FDiv(last_time, dt)) + 1)..length

\* The timesteps of the trailing window with a car inside the segment.
valid_steps(cs, dt) == {t \in last_steps(Len(cs[1].positions), dt) : segment_cars(cs, t) # {}}

RECURSIVE density_sum(_, _, _)
\* density_sum of compute_final_density over the timesteps from t on
density_sum(cs, dt, t) ==
    IF t < Len(cs[1].positions) - int(FDiv(last_time, dt)) + 1 THEN 0
    ELSE FAdd(density_sum(cs, dt, t - 1), FMul(Cardinality(segment_cars(cs, t)) * Scale, dt))

\* Simulation.compute_final_density
compute_final_density(cs, dt) ==
    IF valid_steps(cs, dt) = {} THEN 0
    ELSE FDiv(FDiv(density_sum(cs, dt, Len(cs[1].positions)), FSub(segment_max, segment_min)),
              FMul(Cardinality(valid_steps(cs, dt)) * Scale, dt))

RECURSIVE segment_speed_sum(_, _, _)
\* np.sum(segment_speeds) at index t, over the cars from i on
segment_speed_sum(cs, t, i) ==
    IF i < 1 THEN 0
    ELSE IF i \in segment_cars(cs, t) THEN FAdd(segment_speed_sum(cs, t, i - 1), cs[i].velocities[t])
    ELSE segment_speed_sum(cs, t, i - 1)

RECURSIVE flow_sum(_, _, _)
\* flow_sum of compute_final_flow over the timesteps up to t
flow_sum(cs, dt, t) ==
    IF t < Len(cs[1].positions) - int(FDiv(last_time, dt)) + 1 THEN 0
    ELSE FAdd(flow_sum(cs, dt, t - 1), FMul(segment_speed_sum(cs, t, Len(cs)), dt))

\* Simulation.compute_final_flow
compute_final_flow(cs, dt) ==
    IF valid_steps(cs, dt) = {} THEN 0
    ELSE FDiv(FDiv(flow_sum(cs, dt, Len(cs[1].positions)), FSub(segment_max, segment_min)),
              FMul(Cardinality(valid_steps(cs, dt)) * Scale, dt))

\* Simulation.compute_metrics: the mapping it returns.
compute_metrics(cs, dt) ==
    IF metrics_raise(cs, dt) THEN [NoMetrics EXCEPT !.raised = TRUE]
    ELSE [raised |-> FALSE,
          max_jerk_per_car |-> [i \in 1..Len(cs) |-> max_jerk(cs[i].cmd_accels, dt)],
          hard_brake_times |-> [i \in 1..Len(cs) |-> hard_brake_time(cs[i].cmd_accels, dt)],
          num_crashes |-> crashes_from(cs, 1, 0, None).num_crashes,
          first_crash_index |-> crashes_from(cs, 1, 0, None).first_crash_index,
          string_stability_index |-> string_stability_index([i \in 1..Len(cs) |-> spacing_errors(cs, i)]),
          final_density |-> compute_final_density(cs, dt),
          final_flow |-> compute_final_flow(cs, dt),
          final_velocity |-> mean([i \in 1..Len(cs) |-> cs[i].velocities[Len(cs[i].velocities)]])]

\* Simulation.__init__ up to its loop, for the runs that are measured.
MetricsRun ==
    /\ accels = <<>>
    /\ \E percentage \in MetricPercentages, spacing \in MetricSpacings,
          speed \in MetricSpeeds :
          /\ \E choices \in shuffled(MetricCars - 1,
                                      int(FMul(percentage, (MetricCars - 1) * Scale))) :
                 cars = follower_cars(<<Car(IntelligentDriverModel, speed, 0, None,
                                            default_max_velocity, <<>>)>>,
                                      choices, spacing, speed,
                                      default_max_velocity)
          /\ sim = [n_cars |-> MetricCars, dt |-> metric_dt, percentage |-> percentage,
                    n_steps |-> int(FDiv(FMul(MetricSteps * Scale + Scale \div 2, metric_dt),
                                         metric_dt)),
                    step |-> 0, phase |-> "loop", i |-> 1]

InitMetrics ==
    /\ ctrl = Unused /\ ret = Unused /\ calls = 0
    /\ law = Unused /\ test = Unused
    /\ vehicles = Unused /\ fleet = Unused
    /\ random = Unused /\ sims = Unused
    /\ last = NoMetrics
    /\ MetricsRun

\* One step of the loop of Simulation.__init__.
LoopStep ==
    /\ sim.phase = "loop"
    /\ sim.step < sim.n_steps
    /\ \E r \in {computed(cars, <<>>, 1)} :
           /\ accels' = r.accels
           /\ cars' = stepped(r, sim.dt)
    /\ sim' = [sim EXCEPT !.step = sim.step + 1]
    /\ UNCHANGED <<ctrl, ret, last, calls, law, test, fleetVars, runVars>>

\* a loop that is left as soon as a car has crashed
LoopEnd_at_crash ==
    /\ sim.phase = "loop"
    /\ sim.step >= sim.n_steps \/ \E i \in 1..Len(cars) : crashed(cars[i])
    /\ sim' = [sim EXCEPT !.phase = "finished"]
    /\ UNCHANGED <<ctrl, ret, last, calls, law, test, cars, accels, fleetVars, runVars>>

\* The end of the loop and of __init__.
LoopEnd ==
    /\ sim.phase = "loop"
    /\ sim.step >= sim.n_steps
    /\ sim' = [sim EXCEPT !.phase = "finished"]
    /\ UNCHANGED <<ctrl, ret, last, calls, law, test, cars, accels, fleetVars, runVars>>

\* a compute_metrics that takes the last entry off every gap history it reads
ComputeMetrics_consuming ==
    /\ sim.phase = "finished"
    /\ last' = compute_metrics(cars, sim.dt)
    /\ cars' = [i \in 1..Len(cars) |-> [cars[i] EXCEPT !.space_gaps = SubSeq(@, 1, Len(@) - 1)]]
    /\ sim' = [sim EXCEPT !.phase = "measured"]
    /\ UNCHANGED <<ctrl, ret, calls, law, test, accels, fleetVars, runVars>>

\* metrics = sim.compute_metrics()
ComputeMetrics ==
    /\ sim.phase = "finished"
    /\ last' = compute_metrics(cars, sim.dt)
    /\ sim' = [sim EXCEPT !.phase = "measured"]
    /\ UNCHANGED <<ctrl, ret, calls, law, test, cars, accels, fleetVars, runVars>>

NextMetrics ==
    \/ LoopStep
    \/ LoopEnd
    \/ ComputeMetrics

SpecMetrics == InitMetrics /\ [][NextMetrics]_vars

\* ------------------------------------------------------------------ short runs
\* Simulations of 0 to MetricSteps steps of one second, measured when they
\* have finished: total_time is half a step more than the number of steps.
RunLengths == {0, 1, 2, 5, MetricSteps}

InitShort ==
    /\ ctrl = Unused /\ ret = Unused /\ calls = 0
    /\ law = Unused /\ test = Unused
    /\ vehicles = Unused /\ fleet = Unused
    /\ random = Unused /\ sims = Unused
    /\ last = NoMetrics
    /\ accels = <<>>
    /\ \E percentage \in MetricPercentages, spacing \in MetricSpacings,
          speed \in MetricSpeeds, length \in RunLengths :
          /\ \E choices \in shuffled(MetricCars - 1,
                                      int(FMul(percentage, (MetricCars - 1) * Scale))) :
                 cars = follower_cars(<<Car(IntelligentDriverModel, speed, 0, None,
                                            default_max_velocity, <<>>)>>,
                                      choices, spacing, speed,
                                      default_max_velocity)
          /\ sim = [n_cars |-> MetricCars, dt |-> metric_dt, percentage |-> percentage,
                    n_steps |-> int(FDiv(FMul(length * Scale + Scale \div 2, metric_dt),
                                         metric_dt)),
                    step |-> 0, phase |-> "loop", i |-> 1]

SpecShort == InitShort /\ [][NextMetrics]_vars

\* ------------------------------------------------------------------ calculate_metrics
\* The metrics of a FleetSimulation and a second call of each metrics method
\* on a finished run: first a FleetSimulation is run and measured twice, then
\* a Simulation.
close_gap == 5000
stability_share == 200

\* The entries of a (steps, n_vehicles) array, row after row.
flattened(array) ==
    IF array = <<>> THEN <<>>
    ELSE [k \in 1..(Len(array) * Len(array[1])) |-> array[((k - 1) \div Len(array[1])) + 1][((k - 1) % Len(array[1])) + 1]]

\* np.min and np.max of a sequence of values
np_min(values) == CHOOSE m \in {values[k] : k \in 1..Len(values)} : \A k \in 1..Len(values) : m <= values[k]
np_max(values) == CHOOSE m \in {values[k] : k \in 1..Len(values)} : \A k \in 1..Len(values) : values[k] <= m

\* np.var and np.std: the mean of the squared deviations and its root
np_var_about(values, centre) == mean([k \in 1..Len(values) |-> FSquare(FSub(values[k], centre))])
np_var(values) == np_var_about(values, mean(values))
np_std(values) == FSqrt(np_var(values))

\* FleetSimulation._calculate_string_stability for steps >= 5, where both
\* slices hold int(0.2 * steps) rows; a variance below 1e-6 is 0 at the
\* resolution of the model.
_calculate_string_stability(velocities, steps) ==
    IF np_var(flattened(SubSeq(velocities, 1, int(FMul(stability_share, steps * Scale))))) <= 0
    THEN Scale
    ELSE FDiv(np_var(flattened(SubSeq(velocities, steps - int(FMul(stability_share, steps * Scale)) + 1, steps))),
              np_var(flattened(SubSeq(velocities, 1, int(FMul(stability_share, steps * Scale))))))

\* FleetSimulation.calculate_metrics
calculate_metrics(self) ==
    [min_space_gap |-> np_min(flattened(self.space_gaps)),
     mean_space_gap |-> mean(flattened(self.space_gaps)),
     std_space_gap |-> np_std(flattened(self.space_gaps)),
     max_decel |-> np_min(flattened(self.accelerations)),
     max_accel |-> np_max(flattened(self.accelerations)),
     mean_velocity |-> mean(flattened(self.velocities)),
     velocity_std |-> np_std(flattened(self.velocities)),
     num_close_calls |-> Cardinality({k \in 1..Len(flattened(self.space_gaps)) : flattened(self.space_gaps)[k] < close_gap}),
     string_stability |-> _calculate_string_stability(self.velocities, self.steps)]

NoFleetMetrics == [min_space_gap |-> 0, mean_space_gap |-> 0, std_space_gap |-> 0, max_decel |-> 0, max_accel |-> 0, mean_velocity |-> 0, velocity_std |-> 0, num_close_calls |-> 0, string_stability |-> 0]

InitMeasure ==
    /\ ctrl = Unused /\ calls = 0
    /\ law = Unused /\ test = Unused
    /\ random = Unused /\ sims = Unused
    /\ last = NoMetrics
    /\ ret = NoFleetMetrics
    /\ MetricsRun
    /\ FleetRun

\* The loop of Simulation.__init__, after the FleetSimulation was measured.
RunSimulation ==
    /\ fleet.pc = "remeasured"
    /\ LoopStep \/ LoopEnd

\* metrics = sim.compute_metrics(), the first call on the finished run
FirstComputeMetrics ==
    /\ fleet.pc = "remeasured"
    /\ ComputeMetrics

\* sim.compute_metrics() called once more
SecondComputeMetrics ==
    /\ sim.phase = "measured"
    /\ last' = compute_metrics(cars, sim.dt)
    /\ sim' = [sim EXCEPT !.phase = "remeasured"]
    /\ UNCHANGED <<ctrl, ret, calls, law, test, cars, accels, fleetVars, runVars>>

\* metrics = sim.calculate_metrics(), the first call after run
CalculateMetrics ==
    /\ fleet.pc = "done"
    /\ ret' = calculate_metrics(fleet)
    /\ fleet' = [fleet EXCEPT !.pc = "measured"]
    /\ UNCHANGED <<ctrl, last, calls, law, test, simVars, vehicles, runVars>>

\* sim.calculate_metrics() called once more
SecondCalculateMetrics ==
    /\ fleet.pc = "measured"
    /\ ret' = calculate_metrics(fleet)
    /\ fleet' = [fleet EXCEPT !.pc = "remeasured"]
    /\ UNCHANGED <<ctrl, last, calls, law, test, simVars, vehicles, runVars>>

NextMeasure ==
    \/ FleetLead
    \/ FleetVehicle
    \/ CalculateMetrics
    \/ SecondCalculateMetrics
    \/ RunSimulation
    \/ FirstComputeMetrics
    \/ SecondComputeMetrics

SpecMeasure == InitMeasure /\ [][NextMeasure]_vars

\* ------------------------------------------------------------------ claims
InRange(x, p) == p.max_decel <= x /\ x <= p.max_accel

\* The raw command of the last call: _calculate_control reads only the mode
\* and the parameters of the controller, which the rest of step leaves alone.
LastRaw == _calculate_control(ctrl, last.lead_dist, last.rel_vel, last.ego_vel)

\* C1: the acceleration returned by every step call, and the stored previous
\* filtered output, lie in [max_decel, max_accel].
C1_CommandInRange ==
    /\ InRange(ret[1], ctrl.params)
    /\ InRange(ctrl.prev_cmd_accel_filtered, ctrl.params)

\* A call whose raw command was far above max_accel returned a command in range.
C1_Witness ==
    /\ last.run > 0
    /\ LastRaw > 2 * ctrl.params.max_accel
    /\ ret[1] > 0
    /\ ret[1] <= ctrl.params.max_accel

\* The transition table of the design, rows in the listed order.
TableNext(from, vel, acc, dist, p) ==
    CASE from = NO_WAVE ->
            IF (acc < -500 /\ vel < p.no_wave_velo /\ dist < 200000)
               \/ (vel < p.no_wave_velo /\ dist < p.close_distance)
            THEN INTO_WAVE ELSE from
      [] from = INTO_WAVE ->
            IF vel <= p.wave_velo THEN IN_WAVE
            ELSE IF acc >= 250 THEN OUT_OF_WAVE
            ELSE IF dist > p.far_distance THEN NO_WAVE
            ELSE from
      [] from = IN_WAVE ->
            IF acc > 500 /\ vel > p.wave_velo THEN OUT_OF_WAVE
            ELSE IF dist > p.far_distance THEN NO_WAVE
            ELSE from
      [] from = OUT_OF_WAVE ->
            IF vel > p.no_wave_velo \/ dist > p.far_distance THEN NO_WAVE
            ELSE IF acc <= -250 THEN INTO_WAVE
            ELSE from

\* C5: on every step call after the first, the next mode is the one the
\* transition table gives for the mode the call found, evaluated in the listed
\* order on (smoothed lead velocity, smoothed lead acceleration, lead distance).
C5_TableTransition ==
    (last.run > 0 /\ ~last.first) =>
        ctrl.state = TableNext(last.from, ctrl.lead_vel_smooth, ctrl.lead_accel_smooth,
                               last.lead_dist, ctrl.params)

\* A call in INTO_WAVE where the first and the second row both matched: the
\* first one won.
C5_Witness ==
    /\ last.run > 0 /\ ~last.first
    /\ last.from = INTO_WAVE
    /\ ctrl.lead_vel_smooth <= ctrl.params.wave_velo
    /\ ctrl.lead_accel_smooth >= 250
    /\ ctrl.state = IN_WAVE

\* C6: the first step call after construction or reset chooses NO_WAVE if the
\* smoothed lead velocity is above no_wave_velocity or the lead distance is
\* above 200, IN_WAVE otherwise, and applies no table transition.
C6_FirstCall ==
    (last.run > 0 /\ last.first) =>
        ctrl.state = IF ctrl.lead_vel_smooth > ctrl.params.no_wave_velo
                         \/ last.lead_dist > 200000
                      THEN NO_WAVE ELSE IN_WAVE

\* A first call after a reset chose IN_WAVE although the IN_WAVE -> OUT_OF_WAVE
\* row of the table matched.
C6_Witness ==
    /\ calls > 1 /\ last.run > 0 /\ last.first
    /\ ctrl.state = IN_WAVE
    /\ ctrl.lead_accel_smooth > 500
    /\ ctrl.lead_vel_smooth > ctrl.params.wave_velo

\* C7: after window_size consecutive step calls with the same combined lead
\* velocity v, the smoothed lead velocity equals v exactly, whatever the
\* buffer held before.
C7_SmoothedEqualsInput ==
    last.run >= ctrl.params.ma_window => ctrl.lead_vel_smooth = last.combined

\* The IN_WAVE law has been evaluated at zero relative velocity with the lead
\* at desired_distance.
AtDesiredDistance ==
    /\ law.pc = "done"
    /\ ctrl.state = IN_WAVE
    /\ law.rel_vel = 0
    /\ law.lead_dist = ctrl.params.desired_distance

RecordedGaps == {test.distances[k] : k \in 1..test.i}

\* C9: in the approach scenario (ego 25 m/s, constant lead 15 m/s, gap 100 m,
\* dt 0.05, 600 steps) the gap is at least 5 m at every step including the
\* last, and the final ego velocity is within 1 m/s of the lead's 15 m/s.
C9_ApproachKeepsGap ==
    test.scenario = "approach" =>
        /\ \A gap \in RecordedGaps : gap >= min_gap
        /\ test.i = test.steps =>
                Abs(test.ego_vels[test.steps] - test.lead_vel) < velocity_tolerance

\* C10: in the sudden-braking scenario (ego = lead = 20 m/s, gap 50 m, lead
\* decelerating at 2 m/s^2 for 5 s <= t < 10 s, dt 0.05, 400 steps) the gap
\* never drops below 5 m.
C10_SuddenStopKeepsGap ==
    test.scenario = "sudden_stop" => \A gap \in RecordedGaps : gap >= min_gap

\* The velocity of the last integration step before the floor.
UnflooredVelocity == FAdd(last.velocity, FMul(last.accel, last.dt))

\* C2: from a non-negative initial velocity, the velocity of a car and of a
\* vehicle is >= 0 after every integration step, whatever the acceleration and
\* the time step: Car.apply_update and Vehicle.update floor the velocity at 0
\* and integrate the position with the floored velocity.
C2_VelocityNonNegative ==
    /\ cars[1].velocity >= 0
    /\ vehicles[1].velocity >= 0
    /\ last.op = "apply_update" =>
            /\ cars[1].velocity = IF UnflooredVelocity < 0 THEN 0 ELSE UnflooredVelocity
            /\ cars[1].position = FAdd(last.position, FMul(cars[1].velocity, last.dt))
    /\ last.op = "update" =>
            /\ vehicles[1].velocity = IF UnflooredVelocity < 0 THEN 0 ELSE UnflooredVelocity
            /\ vehicles[1].position =
                    FAdd(last.position, FMul(vehicles[1].velocity, last.dt))

\* A braking vehicle has just been stopped by the floor, and so was the car
\* before it.
C2_Witness ==
    /\ last.op = "update"
    /\ UnflooredVelocity < 0
    /\ vehicles[1].velocity = 0
    /\ vehicles[1].position = last.position
    /\ cars[1].velocities[1] > 0
    /\ cars[1].velocity = 0

\* Car i has computed its acceleration in the current step of the loop.
Computed(i) ==
    \/ sim.phase \in {"apply", "record"}
    \/ sim.phase = "compute" /\ i < sim.i

\* C3: in every step of the Simulation loop all cars have computed their
\* acceleration before any car is updated, and the gap and relative velocity
\* handed to a follower's controller in step k are those of its own and its
\* leader's position and velocity at the end of step k-1.
C3_TwoPhase ==
    /\ sim.phase \in {"apply", "record"} => Len(accels) = sim.n_cars
    /\ \A i \in 2..sim.n_cars :
            Computed(i) =>
                LET k == sim.step + 1
                    leader == cars[cars[i].lead_car]
                IN  /\ cars[i].current_gap =
                            FSub(leader.positions[k], cars[i].positions[k])
                    /\ cars[i].current_rel_vel =
                            FSub(leader.velocities[k], cars[i].velocities[k])

\* The leader has already moved in this step and the follower has not; the
\* gap the follower's controller received is not the current one.
C3_Witness ==
    /\ sim.phase = "apply" /\ sim.i = 2 /\ sim.step >= 1
    /\ cars[1].position # cars[1].positions[sim.step + 1]
    /\ cars[2].current_gap # FSub(cars[1].position, cars[2].position)
    /\ cars[2].current_gap = FSub(cars[1].positions[sim.step + 1], cars[2].position)

\* C4: when vehicle i's controller is stepped in step k of FleetSimulation.run,
\* the lead position and velocity it observes are those of the end of step
\* k-1: the distance it computes is the gap recorded at the end of step k-1
\* (the initial spacing in step 0) and the relative velocity is the difference
\* of the velocities recorded then.
C4_ObservesPreviousStep ==
    /\ last.vehicle >= 1 /\ last.step = 0 =>
            /\ last.lead_dist = initial_spacing
            /\ last.rel_vel = 0
    /\ last.vehicle >= 1 /\ last.step >= 1 =>
            /\ last.lead_dist = fleet.space_gaps[last.step][last.vehicle]
            /\ last.vehicle < fleet.n_vehicles =>
                    last.rel_vel = FSub(fleet.velocities[last.step][last.vehicle + 1],
                                        fleet.velocities[last.step][last.vehicle])

\* C11: in the state-coverage scenario (ego 25 m/s, gap 150 m floored at 10 m,
\* lead velocity 25, 12, 8, 20, 25 m/s in 10 s segments, 1000 steps of 0.05 s)
\* the modes returned by step over the whole run comprise at least 3 distinct
\* modes.
VisitedModes == {test.states[k] : k \in 1..test.i}

C11_ThreeModesVisited ==
    test.scenario = "state_transitions" /\ test.i = test.steps
        => Cardinality(VisitedModes) >= min_modes

ConstructedAlone(self) ==
    shuffle(seed(0, self.args.random_seed), unshuffled(self.n_followers, self.n_our)).x

C13_AssignmentIndependent ==
    \A k \in Instances :
        sims[k].pc \in {"cars", "done"} => sims[k].choices = ConstructedAlone(sims[k])

\* C14: the number of ACC-equipped vehicles is the penetration fraction times
\* the number of candidate vehicles, truncated to an integer (the followers
\* of a Simulation, all vehicles of a FleetSimulation); every other candidate
\* gets the reference driver model and the number of vehicles is unchanged.
Truncated(fraction, n) ==
    CHOOSE c \in 0..n : c * Scale <= fraction * n /\ fraction * n < (c + 1) * Scale

OurFollowers == {i \in 2..Len(cars) : cars[i].controller.kind = "OurController"}

AccVehicles == {i \in 1..Len(vehicles) : vehicles[i].is_acc}

C14_PenetrationCount ==
    /\ last.op = "Simulation" =>
            /\ Len(cars) = last.candidates + 1
            /\ Cardinality(OurFollowers) = Truncated(last.fraction, last.candidates)
            /\ \A i \in 2..Len(cars) :
                   i \notin OurFollowers => cars[i].controller = IntelligentDriverModel
    /\ last.op = "FleetSimulation" =>
            /\ Len(vehicles) = last.candidates
            /\ Cardinality(AccVehicles) = Truncated(last.fraction, last.candidates)
            /\ \A i \in 1..Len(vehicles) :
                   IF i \in AccVehicles
                   THEN /\ vehicles[i].controller = ACCController(ACCParameters)
                        /\ vehicles[i].driver = None
                   ELSE vehicles[i].controller = None /\ vehicles[i].driver = HumanDriver

C14_Witness ==
    /\ last.op = "FleetSimulation" /\ last.fraction = 500
    /\ Cardinality(AccVehicles) = 1
    /\ Cardinality(OurFollowers) = 1 /\ cars[2].controller = IntelligentDriverModel

\* C15: after k steps of the Simulation loop every car has k + 1 recorded
\* positions and velocities (the initial condition included) and exactly k
\* recorded commanded accelerations, space gaps and relative velocities.
BetweenSteps == sim.phase = "done" \/ (sim.phase = "compute" /\ sim.i = 1)

C15_HistoryLengths ==
    BetweenSteps =>
        \A i \in 1..Len(cars) :
            /\ Len(cars[i].positions) = sim.step + 1
            /\ Len(cars[i].velocities) = sim.step + 1
            /\ Len(cars[i].cmd_accels) = sim.step
            /\ Len(cars[i].space_gaps) = sim.step
            /\ Len(cars[i].relative_velocities) = sim.step

\* C16: at every history index of every follower car the recorded gap and
\* relative velocity are those of the recorded positions and velocities at the
\* same index: space_gaps[k] = lead.positions[k] - positions[k] and
\* relative_velocities[k] = lead.velocities[k] - velocities[k].
C16_GapMatchesPositions ==
    BetweenSteps =>
        \A i \in 2..Len(cars) :
            \A k \in 1..Len(cars[i].space_gaps) :
                /\ k <= Len(cars[i].positions)
                /\ cars[i].space_gaps[k] =
                       FSub(cars[cars[i].lead_car].positions[k], cars[i].positions[k])
                /\ cars[i].relative_velocities[k] =
                       FSub(cars[cars[i].lead_car].velocities[k], cars[i].velocities[k])

\* C17: every space gap recorded for the lead car is +infinity and every
\* relative velocity recorded for it is 0, and at every step its controller is
\* called with exactly these values: the acceleration used for the lead car is
\* what its controller returns for its velocity, an infinite gap and a zero
\* relative velocity.
LeadCommand == command_acceleration(cars[1].controller, cars[1].velocity, Inf, 0,
                                    cars[1].max_velocity)

LeadRecords ==
    /\ cars[1].lead_car = None
    /\ \A k \in 1..Len(cars[1].space_gaps) : cars[1].space_gaps[k] = Inf
    /\ \A k \in 1..Len(cars[1].relative_velocities) : cars[1].relative_velocities[k] = 0
    /\ cars[1].current_gap = Inf /\ cars[1].current_rel_vel = 0

LeadCall ==
    sim.phase = "compute" /\ sim.i = 1 =>
        /\ accels' = <<LeadCommand.accel>>
        /\ cars'[1].controller = LeadCommand.controller

C17_LeadCarGap == []LeadRecords /\ [][LeadCall]_vars

C17_Witness ==
    /\ sim.step >= 2 /\ sim.phase = "apply" /\ sim.i = 1
    /\ Len(cars[1].space_gaps) = sim.step + 1
    /\ cars[1].velocity # cars[1].velocities[1]
    /\ accels[1] # 0

\* C18: compute_metrics reports as num_crashes the number of cars whose
\* space-gap history holds a value <= 0, each car counted once and the lead
\* car never, and first_crash_index is None exactly when num_crashes is 0.
CrashedCars == {i \in 1..Len(cars) : crashed(cars[i])}

Measured == sim.phase = "measured" /\ ~last.raised

C18_CrashCount ==
    Measured =>
        /\ last.num_crashes = Cardinality(CrashedCars)
        /\ 1 \notin CrashedCars
        /\ last.first_crash_index = None <=> last.num_crashes = 0

C18_Witness ==
    /\ Measured
    /\ last.num_crashes = 2 /\ last.num_crashes < Len(cars) - 1
    /\ last.first_crash_index # None

\* C19: when a car crashes, first_crash_index is the car whose gap reaches a
\* value <= 0 at the earliest step: no other car has a value <= 0 at an
\* earlier index of its gap history.
FirstCrashStep(i) ==
    CHOOSE k \in 1..Len(cars[i].space_gaps) :
        /\ cars[i].space_gaps[k] <= 0
        /\ \A j \in 1..(k - 1) : cars[i].space_gaps[j] > 0

C19_FirstCrashIsEarliest ==
    Measured /\ last.num_crashes > 0 =>
        /\ last.first_crash_index \in CrashedCars
        /\ \A i \in CrashedCars :
               FirstCrashStep(last.first_crash_index) <= FirstCrashStep(i)

\* C20: the Simulation loop is left after exactly int(total_time / dt) steps,
\* never earlier: a car with a non-positive gap does not shorten the run, and
\* every step integrates and records every car, also after a crash.
StepsRecorded ==
    /\ sim.step <= sim.n_steps
    /\ sim.phase # "loop" => sim.step = sim.n_steps
    /\ \A i \in 1..Len(cars) :
           /\ Len(cars[i].positions) = sim.step + 1
           /\ Len(cars[i].cmd_accels) = sim.step

Integrated(car, after, accel) ==
    /\ after.velocity = Max(FAdd(car.velocity, FMul(accel, sim.dt)), 0)
    /\ after.position = FAdd(car.position, FMul(after.velocity, sim.dt))
    /\ after.positions = Append(car.positions, after.position)
    /\ after.velocities = Append(car.velocities, after.velocity)

EveryCarIntegrated ==
    sim.phase = "loop" /\ sim'.step = sim.step + 1 =>
        \A i \in 1..Len(cars) : Integrated(cars[i], cars'[i], accels'[i])

C20_RunsToTheEnd == []StepsRecorded /\ [][EveryCarIntegrated]_vars

C20_Witness ==
    /\ sim.phase = "finished" /\ sim.step = MetricSteps
    /\ \E i \in 2..Len(cars) :
           /\ cars[i].space_gaps[3] <= 0
           /\ cars[i].positions[sim.step + 1] > cars[i].positions[4]

\* C21: when compute_metrics has returned, the spacing error of every
\* follower is its gap history minus that same car's own mean gap over the
\* run (zero for the lead car), and string_stability_index is the largest
\* ratio of the maximal absolute spacing errors of consecutive cars.
OwnMeanErrors(i) ==
    IF i = 1 THEN [k \in 1..Len(cars[i].space_gaps) |-> 0]
    ELSE [k \in 1..Len(cars[i].space_gaps) |-> FSub(cars[i].space_gaps[k], mean(cars[i].space_gaps))]

C21_OwnMeanSpacingError ==
    (sim.phase = "measured" /\ ~last.raised) =>
        /\ \A i \in 1..Len(cars) : spacing_errors(cars, i) = OwnMeanErrors(i)
        /\ last.string_stability_index = string_stability_index([i \in 1..Len(cars) |-> OwnMeanErrors(i)])

\* C22: computing metrics is read-only.  A call of compute_metrics leaves
\* every car, with all its histories, and the list of accelerations as they
\* were, a call of calculate_metrics leaves every vehicle and every recorded
\* array as they were, and a second call on the finished run returns the
\* mapping the first call returned.
MetricsCall == sim'.phase # sim.phase /\ sim'.phase \in {"measured", "remeasured"}
FleetMetricsCall == fleet'.pc # fleet.pc /\ fleet'.pc \in {"measured", "remeasured"}

MetricsReadOnly ==
    /\ MetricsCall => cars' = cars /\ accels' = accels /\ [sim' EXCEPT !.phase = sim.phase] = sim
    /\ MetricsCall /\ sim.phase = "measured" => last' = last
    /\ FleetMetricsCall => vehicles' = vehicles /\ [fleet' EXCEPT !.pc = fleet.pc] = fleet
    /\ FleetMetricsCall /\ fleet.pc = "measured" => ret' = ret

ClampedAccel(input) ==
    driver_accel(HumanDriver, Max(1000, input.lead_dist), input.rel_vel, Max(10, input.ego_vel))

DelaySteps == int(FDiv(HumanDriver.reaction_time, law.dt))

C23_ReactionDelay ==
    (law.kind = "HumanDriver" /\ calls >= 1 /\ ~law.raised) =>
        /\ calls <= DelaySteps => ret = 0
        /\ calls > DelaySteps => ret = ClampedAccel(last[calls - DelaySteps])
        /\ Len(ctrl.delay_buffer) = Min(calls, DelaySteps)
        /\ \A j \in 1..Len(ctrl.delay_buffer) :
               ctrl.delay_buffer[j] = ClampedAccel(last[calls - Len(ctrl.delay_buffer) + j])

C23_Witness ==
    /\ law.kind = "HumanDriver" /\ ~law.raised
    /\ DelaySteps = 4 /\ calls = 5
    /\ ret = ClampedAccel(last[1]) /\ ret # 0
    /\ ret # ClampedAccel(last[2]) /\ ret # ClampedAccel(last[5])

\* C24: every call of a reference controller returns an acceleration in
\* [-3, 1.5], for every input: zero and negative gaps, zero velocity and an
\* infinite gap included.
C24_ReferenceInRange ==
    calls >= 1 => ~law.raised /\ ret >= -3000 /\ ret <= 1500

\* C25: when an exponentiation of IntelligentDriverModel.command_acceleration
\* overflows, the call returns (nothing is raised) and its result is -3.0.
IdmOverflows(input) ==
    \/ Pow4Overflows(FDiv(Max(0, input.ego_vel), default_max_velocity))
    \/ SquareOverflows(FDiv(FAdd(5000, Max(0, FAdd(FMul(Max(0, input.ego_vel), 1500),
                                                    FDiv(FMul(Max(0, input.ego_vel), -input.rel_vel),
                                                         FMul(2 * Scale, FSqrt(2000)))))),
                             Max(100, input.lead_dist)))

C25_OverflowFallback ==
    (law.kind = "IntelligentDriverModel" /\ calls >= 1 /\ IdmOverflows(last[calls])) =>
        ~law.raised /\ ret = -3000

C25_Witness ==
    /\ law.kind = "IntelligentDriverModel" /\ calls >= 2
    /\ IdmOverflows(last[calls]) /\ ~IdmOverflows(last[calls - 1])
    /\ last[calls].lead_dist = 0
    /\ ret = -3000

\* C26: every step call with ego_vel >= speed_limit returns an acceleration
\* that is not positive, whatever the controller returned before.
C26_SpeedLimiter ==
    (calls >= 1 /\ last.ego_vel >= ctrl.params.speed_limit) => ret[1] <= 0

\* C27: on every step call after the first, the mode the call found and the
\* mode it leaves are equal or joined by one of the eight edges of the table;
\* NO_WAVE -> IN_WAVE, NO_WAVE -> OUT_OF_WAVE, IN_WAVE -> INTO_WAVE and
\* OUT_OF_WAVE -> IN_WAVE never occur.
TableEdges ==
    {<<NO_WAVE, INTO_WAVE>>, <<INTO_WAVE, IN_WAVE>>, <<INTO_WAVE, OUT_OF_WAVE>>,
     <<INTO_WAVE, NO_WAVE>>, <<IN_WAVE, OUT_OF_WAVE>>, <<IN_WAVE, NO_WAVE>>,
     <<OUT_OF_WAVE, NO_WAVE>>, <<OUT_OF_WAVE, INTO_WAVE>>}

C27_OnlyTableEdges ==
    (last.run > 0 /\ ~last.first) =>
        last.from = ctrl.state \/ <<last.from, ctrl.state>> \in TableEdges

\* A call after the first that entered IN_WAVE, from INTO_WAVE.
C27_Witness ==
    /\ last.run > 0 /\ ~last.first
    /\ last.from = INTO_WAVE /\ ctrl.state = IN_WAVE

\* C28: a call of OurController that finds the mode OUT_OF_WAVE and whose
\* smoothed lead velocity is above no_wave_velocity, or whose space gap is
\* above 200, leaves the mode NO_WAVE, also when the smoothed lead
\* acceleration is at or below -0.25.
C28_OutOfWaveRowOrder ==
    (/\ calls >= 1
     /\ last.from = OUT_OF_WAVE
     /\ \/ moving_average(ctrl.lead_velocity_history) > default_no_wave_velocity
        \/ last.space_gap > 200000)
    => ctrl.mode = NO_WAVE

\* C29: for the same mode and the same (distance, relative velocity, ego
\* velocity), the mode's function of OurController returns the raw command
\* that _calculate_control of a default ACCController returns.
C29_SameControlLaw ==
    (law.pc = "done" /\ ctrl.params = ACCParameters) => law.our_raw = law.acc_raw

\* C30: in mode NO_WAVE the command of _calculate_control is the clamped
\* distance term whenever the desired velocity exceeds the ego velocity by 3
\* or more (the velocity-approach factor is then exactly 1), and it is 0
\* whenever the ego velocity has reached the desired velocity.
VelocityError == FSub(Min(ctrl.params.max_velo, 35000), law.ego_vel)

DistanceAccelSat ==
    _clamp(gap_law(ctrl.params, ctrl.params.alpha_no_wave, ctrl.params.tau_no_wave,
                   ctrl.params.beta_no_wave, law.lead_dist, law.rel_vel, law.ego_vel),
           ctrl.params.max_decel, ctrl.params.max_accel)

C30_ApproachFactor ==
    (law.pc = "done" /\ ctrl.state = NO_WAVE) =>
        /\ VelocityError >= 3000 => law.acc_raw = DistanceAccelSat
        /\ VelocityError <= 0 => law.acc_raw = 0

\* The slots in which two buffers of equal length differ.
WrittenSlots(before, after) == {k \in 1..Len(before) : before[k] # after[k]}

\* One step call keeps the cursor, the two buffers and the two running sums
\* together: the cursor advances by one modulo window_size, both buffers are
\* written at the slot the cursor pointed to and nowhere else, both keep
\* window_size entries, and each running sum is the sum of its buffer.
StepKeepsBuffers ==
    LET w == ctrl.params.ma_window
    IN  /\ ctrl'.buffer_idx = (ctrl.buffer_idx + 1) % w
        /\ WrittenSlots(ctrl.lead_vel_buffer, ctrl'.lead_vel_buffer) \subseteq {ctrl.buffer_idx + 1}
        /\ WrittenSlots(ctrl.lead_accel_buffer, ctrl'.lead_accel_buffer) \subseteq {ctrl.buffer_idx + 1}
        /\ ctrl'.lead_vel_buffer[ctrl.buffer_idx + 1] = last'.combined
        /\ Len(ctrl'.lead_vel_buffer) = w
        /\ Len(ctrl'.lead_accel_buffer) = w
        /\ ctrl'.buffer_sum_vel = FSum(ctrl'.lead_vel_buffer)
        /\ ctrl'.buffer_sum_accel = FSum(ctrl'.lead_accel_buffer)

\* C31: after k step calls since construction or reset buffer_idx is
\* k mod window_size (it starts at 0, is 0 after reset and advances by one
\* modulo window_size in every call), both circular buffers are written at
\* the same slot in every call, each buffer has exactly window_size entries,
\* and each running sum equals the sum of the entries of its buffer.
C31_BuffersSynchronized ==
    /\ ctrl.buffer_idx = 0
    /\ [][/\ calls' = calls + 1 => StepKeepsBuffers
          /\ calls' = calls => ctrl'.buffer_idx = 0]_vars

\* C32: two FleetSimulation instances built with identical constructor
\* arguments and run with the same lead-vehicle profile equip the same vehicle
\* indices with ACC and record identical state and acceleration time series
\* (and positions, velocities and gaps), for every penetration rate.
C32_SameFleetTwice ==
    (calls = 2 /\ fleet.pc = "done") => recorded_series(fleet, vehicles) = ret

\* C33: for every sequence of step calls the smoothed lead acceleration lies
\* in [-3.5, 2.0]: every sample entering the acceleration buffer is saturated
\* to that range, the first one included, and the buffer starts at zero.
C33_SmoothedAccelerationInRange ==
    /\ \A k \in 1..Len(ctrl.lead_accel_buffer) :
           /\ ctrl.lead_accel_buffer[k] >= -((7 * FineScale) \div 2)
           /\ ctrl.lead_accel_buffer[k] <= 2 * FineScale
    /\ ctrl.lead_accel_smooth >= -((7 * FineScale) \div 2)
    /\ ctrl.lead_accel_smooth <= 2 * FineScale

\* C34: reset restores the freshly constructed state: after any sequence of
\* step calls followed by reset the controller equals a newly constructed one
\* with the same parameters, so every later input yields the same
\* (acceleration, mode) output as on a new controller; reset is idempotent
\* and leaves the parameters unchanged.
C34_ResetRestores ==
    [][(last' = NoCall) =>
          /\ ctrl' = ACCController(ctrl.params)
          /\ \A in \in Inputs :
                 step(ctrl', in[1], in[2], in[3])
                     = step(ACCController(ctrl.params), in[1], in[2], in[3])
          /\ reset(ctrl') = ctrl'
          /\ ctrl'.params = ctrl.params]_vars

\* A controller has been reset after at least three step calls and is back
\* in the state of a new one.
C34_Witness ==
    /\ last = NoCall
    /\ calls >= 3
    /\ ctrl = ACCController(ctrl.params)

\* C35: anti-jerk bound: the returned acceleration changes between
\* consecutive calls by at most filter_coeff * (max_accel - max_decel) in
\* absolute value, the output before the first call taken as 0
\* (filter_coeff counts 1/Scale, so both sides are multiplied by Scale).
C35_AntiJerkBound ==
    Abs(ret - last) * Scale
        <= ctrl.params.filter_coeff * (ctrl.params.max_accel - ctrl.params.max_decel)

\* The number of command_acceleration calls car i has received.
CommandsOf(i) ==
    IF sim.phase = "done" \/ (sim.phase = "compute" /\ i >= sim.i)
    THEN sim.step ELSE sim.step + 1

\* The last lead-acceleration sample of an OurController is the difference of
\* its last two lead velocities divided by dt, saturated to [-3.5, 2.0].
DerivativeOver(c, dt) ==
    LET h == c.lead_velocity_history
        n == Len(h)
    IN  n > 1 =>
            c.lead_velocity_derivative_history[n]
                = Max(Min(2000, FDiv(FSub(h[n], h[n - 1]), dt)), -3500)

\* C36: the time step used inside the controllers equals the simulation's
\* dt: after k steps the time cursor of the TrajectoryFollower is
\* time_vector[0] + k * dt, and the lead-acceleration derivative of
\* OurController divides the velocity difference by dt.
C36_ControllerTimeStep ==
    \A i \in 1..Len(cars) :
        /\ cars[i].controller.kind = "TrajectoryFollower" =>
               cars[i].controller.last_time = FMul(CommandsOf(i) * Scale, sim.dt)
        /\ cars[i].controller.kind = "OurController" =>
               DerivativeOver(cars[i].controller, sim.dt)

\* Every gap recorded by a follower is finite.
FiniteFollowerGaps ==
    \A i \in 2..Len(cars) : \A k \in 1..Len(cars[i].space_gaps) : ~IsInf(cars[i].space_gaps[k])

\* C37: for a finished Simulation with at least two cars and finite follower
\* gaps the string_stability_index returned by compute_metrics is a finite
\* number.
C37_FiniteStabilityIndex ==
    (sim.phase = "measured" /\ ~last.raised /\ Len(cars) >= 2 /\ FiniteFollowerGaps) =>
        ~IsInf(last.string_stability_index)

\* C38: compute_metrics returns a metrics mapping without raising for every
\* finished run, whatever its length: also for runs of 0 or 1 steps and for
\* runs whose history is shorter than the 10 s trailing window.
C38_MetricsForEveryLength ==
    sim.phase = "measured" => ~last.raised

\* C39: for OurController Mode.INITIAL is the mode only before the first
\* command_acceleration call: after the first call the mode is NO_WAVE or
\* IN_WAVE, INITIAL is never entered again, and modes_history grows by exactly
\* one entry per call (it records the mode every call returned).
C39_InitialOnlyAtStart ==
    /\ (ctrl.mode = INITIAL) <=> (calls = 0)
    /\ Len(ctrl.modes_history) = calls
    /\ calls >= 1 => /\ ctrl.modes_history[1] \in {NO_WAVE, IN_WAVE}
                     /\ ctrl.modes_history[calls] = ctrl.mode
                     /\ \A k \in 1..calls : ctrl.modes_history[k] # INITIAL

\* A controller whose first call chose IN_WAVE has since moved on to
\* OUT_OF_WAVE, one entry of modes_history per call.
C39_Witness ==
    /\ calls >= 2
    /\ Len(ctrl.modes_history) = calls
    /\ ctrl.modes_history[1] = IN_WAVE
    /\ ctrl.mode = OUT_OF_WAVE
====
